---- MODULE Spec2Model ----
(***************************************************************************)
(* A model of the proxy-flow supervisor of mcp-proxy-studio                *)
(* (backend/app.py): the flow store, the ProcessManager with its per-port  *)
(* gateway children and per-flow OpenAPI helpers, the log pumps, and the   *)
(* request handlers that drive them.  Handlers are split at the points     *)
(* where the asyncio event loop can switch to another task.                *)
(***************************************************************************)
EXTENDS Integers, Sequences, FiniteSets, TLC

VARIABLES
    store,            \* FlowStore: the list of flow records, in file order
    active_ports,     \* ProcessManager.active_ports: port -> set of flow ids
    port_order,       \* insertion order of the keys of active_ports
    processes,        \* ProcessManager.processes: port -> gateway child (0: no entry)
    children,         \* every gateway child spawned so far (ProcessInfo + OS process)
    openapi_helpers,  \* ProcessManager.openapi_helpers: flow id -> helper (0: none)
    helpers,          \* every OpenAPI helper spawned so far
    lock,             \* ProcessManager.lock: holder first, then the waiters in FIFO order
    req,              \* the request handler running in each task slot
    budget,           \* requests and store writes received so far
    listeners,        \* EventBroadcaster.listeners: the registered queues, in order
    queues,           \* the asyncio.Queue of each /api/events stream: its events
    streams,          \* each /api/events stream: where it is and what it has yielded
    sent,             \* every payload handed to broadcast so far, in call order
    inspector         \* InspectorManager: its fields, its call in progress, its processes

vars == <<store, active_ports, port_order, processes, children,
          openapi_helpers, helpers, lock, req, budget,
          listeners, queues, streams, sent, inspector>>

\* the broadcaster and its subscribers
Events == <<listeners, queues, streams, sent>>

----------------------------------------------------------------------------
(* Bounds of the model *)

\* gateway children spawned in one behaviour
MaxChildren == 3
\* OpenAPI helpers spawned in one behaviour
MaxHelpers == 2
\* exited processes whose log pump has not reached the end of the stream yet
MaxPending == 2
\* start / stop / delete requests received in one behaviour
MaxRequests == 3
\* create / update requests received in one behaviour
MaxWrites == 2
\* log lines the children write in one behaviour of SpecPump
MaxLines == 3
\* /api/events streams opened in one behaviour
MaxQueues == 2
\* calls of broadcast in one behaviour
MaxBroadcasts == 102
\* events one stream takes from its queue in one behaviour
MaxGets == 2
\* a stream is opened after at most that many calls of broadcast
MaxLate == 1

----------------------------------------------------------------------------
(* Settings (settings_store.py): fixed ports *)

sse_port == 8002
stream_port == 8001
openapi_port == 8003

Ports == {sse_port, stream_port, openapi_port}
SettingsHosts == {"0.0.0.0"}

FlowIds == {"A", "B"}
Queues == 1..MaxQueues
\* request handlers that can be in flight at the same time
Tasks == {1, 2}

EndpointType == {"stdio", "sse", "streamable_http", "openapi"}

----------------------------------------------------------------------------
(* URLs, as urlparse sees them: hostname, port (0: none), path segments *)

NoUrl == [host |-> "", port |-> 0, path |-> <<>>]
RemoteUrl == [host |-> "example.org", port |-> 443, path |-> <<"x", "sse">>]
LocalUrl(port, route, endpoint) ==
    [host |-> "localhost", port |-> port, path |-> <<route, endpoint>>]
\* the URL _ensure_openapi_helper returns for helper h
HelperUrl(h) == [host |-> "127.0.0.1", port |-> 9000 + h, path |-> <<"mcp">>]

RouteOf(id) == IF id = "A" THEN "a" ELSE IF id = "B" THEN "b" ELSE "c"

\* The payloads the operator sends to create_flow / update_flow
Payloads ==
    { [source_type |-> "stdio", target_type |-> "sse", sse_url |-> NoUrl],
      [source_type |-> "openapi", target_type |-> "streamable_http", sse_url |-> NoUrl],
      [source_type |-> "sse", target_type |-> "streamable_http",
       sse_url |-> LocalUrl(sse_port, "a", "sse")],
      [source_type |-> "sse", target_type |-> "sse",
       sse_url |-> LocalUrl(stream_port, "b", "mcp")],
      [source_type |-> "sse", target_type |-> "sse",
       sse_url |-> LocalUrl(sse_port, "a", "sse")],
      [source_type |-> "sse", target_type |-> "openapi", sse_url |-> RemoteUrl],
      [source_type |-> "stdio", target_type |-> "openapi", sse_url |-> NoUrl],
      [source_type |-> "openapi", target_type |-> "sse", sse_url |-> NoUrl] }

----------------------------------------------------------------------------
(* Sequence helpers *)

Range(s) == {s[i] : i \in DOMAIN s}

RECURSIVE SetToSeq(_)
SetToSeq(S) ==
    IF S = {} THEN <<>>
    ELSE LET x == CHOOSE y \in S : TRUE IN <<x>> \o SetToSeq(S \ {x})

IdsOf(st) == {st[i].id : i \in DOMAIN st}
FilterIds(st, ids) == SelectSeq(st, LAMBDA f : f.id \in ids)

----------------------------------------------------------------------------
(* FlowStore *)

\* store.get: <<flow>> or <<>> (404)
StoreGet(st, id) == FilterIds(st, {id})

\* store.upsert: replace in place or append
StoreUpsert(st, flow) ==
    IF flow.id \in IdsOf(st)
    THEN [i \in DOMAIN st |-> IF st[i].id = flow.id THEN flow ELSE st[i]]
    ELSE Append(st, flow)

\* store.delete
StoreDelete(st, id) == SelectSeq(st, LAMBDA f : f.id # id)

\* store.find_by_route: the first flow with that route and target type
find_by_route(st, route, target_type) ==
    LET hits == SelectSeq(st, LAMBDA f : f.route = route /\ f.target_type = target_type)
    IN IF hits = <<>> THEN <<>> ELSE <<hits[1]>>

----------------------------------------------------------------------------
(* ProcessManager: pure parts *)

\* _port_for_flow
PortForFlow(flow) ==
    IF flow.target_type = "openapi" THEN openapi_port
    ELSE IF flow.target_type = "streamable_http" THEN stream_port
    ELSE sse_port

\* _resolve_dependency: <<upstream>> or <<>>
ResolveDependency(flow, st) ==
    LET url == flow.sse_url
        local_hosts == {"127.0.0.1", "localhost", "0.0.0.0"} \cup SettingsHosts
    IN IF flow.source_type = "stdio" THEN <<>>
       ELSE IF url = NoUrl THEN <<>>
       ELSE IF url.host \notin local_hosts THEN <<>>
       ELSE IF url.port = 0 \/ Len(url.path) < 2 THEN <<>>
       ELSE IF url.port = openapi_port THEN <<>>
       ELSE find_by_route(st, url.path[1],
                          IF url.path[2] = "mcp" THEN "streamable_http" ELSE "sse")

\* a faulty _start_with_dependencies: a flow is marked as visited only when
\* it is met again, so that a cycle is gone round twice
RECURSIVE StartRevisiting(_, _, _)
StartRevisiting(flow, visited, st) ==
    IF flow.id \in visited /\ "again" \in visited THEN <<>>
    ELSE LET dependency == ResolveDependency(flow, st)
             seen == IF flow.id \in visited THEN {"again"} ELSE {flow.id}
         IN (IF dependency # <<>>
             THEN StartRevisiting(dependency[1], visited \cup seen, st)
             ELSE <<>>) \o <<flow>>

\* _start_with_dependencies: the flows in the order _activate_flow is called on
\* them (the recursion descends first, then activates on the way back)
RECURSIVE StartWithDependencies(_, _, _)
StartWithDependencies(flow, visited, st) ==
    IF flow.id \in visited THEN <<>>
    ELSE LET dependency == ResolveDependency(flow, st)
         IN (IF dependency # <<>>
             THEN StartWithDependencies(dependency[1], visited \cup {flow.id}, st)
             ELSE <<>>) \o <<flow>>

\* One entry of mcpServers on a non-OpenAPI port (lines 609-627)
ProxyEntry(flow, upstream) ==
    IF flow.source_type = "stdio" \/ flow.target_type = "stdio"
    THEN [fid |-> flow.id, kind |-> "command", url |-> NoUrl, transportType |-> ""]
    ELSE [fid |-> flow.id, kind |-> "url", url |-> upstream,
          transportType |-> IF flow.source_type \in {"streamable_http", "openapi"}
                            THEN "streamable-http" ELSE "sse"]

\* The url entry written at lines 579-584 on the OpenAPI port
OpenApiUrlEntry(flow, upstream) ==
    [fid |-> flow.id, kind |-> "url", url |-> upstream,
     transportType |-> IF flow.source_type = "streamable_http"
                       THEN "streamable-http" ELSE "sse"]

\* urlparse / _replace / urlunparse at lines 559-566: local hosts are rewritten
\* to settings.inspector_public_host
RewriteUpstream(url) ==
    IF url.host \in {"0.0.0.0", "localhost"}
    THEN [url EXCEPT !.host = "0.0.0.0"]
    ELSE url

----------------------------------------------------------------------------
(* Local state of a request handler, and the records of the processes *)

Idle ==
    [kind |-> "idle", pc |-> "idle", fid |-> "", flow |-> <<>>, chain |-> <<>>,
     port |-> 0, restart |-> FALSE, flows |-> <<>>, i |-> 0, servers |-> {},
     upstream_url |-> <<>>, helper |-> 0, hq |-> <<>>, hw |-> 0, ret |-> "",
     res |-> ""]

NewChild(port, ids, servers) ==
    [port |-> port, flow_ids |-> ids, cfg |-> servers, returncode |-> "none",
     exit_code |-> "none", pump |-> "reading", hq |-> <<>>, hw |-> 0]

NewHelper(fid) ==
    [fid |-> fid, alive |-> TRUE, pump |-> "reading", hq |-> <<>>, hw |-> 0]

\* a ProcessInfo nothing refers to any more: its pump has ended and it is in
\* no registry
Gone == [port |-> 0, flow_ids |-> {}, cfg |-> {}, returncode |-> "exit",
         exit_code |-> "exit", pump |-> "done", hq |-> <<>>, hw |-> 0]
GoneHelper == [fid |-> "", alive |-> FALSE, pump |-> "done", hq |-> <<>>, hw |-> 0]

\* once the manager has dropped the ProcessInfo of an exited child only its
\* pump still holds it, and what the pump does to the manager depends on the
\* flow ids alone
Collect(ch, procs) ==
    [c \in DOMAIN ch |->
        IF (\E p \in Ports : procs[p] = c) \/ ch[c].returncode = "none" THEN ch[c]
        ELSE IF ch[c].pump = "done" THEN Gone
        ELSE [ch[c] EXCEPT !.port = 0, !.cfg = {}, !.returncode = "exit",
                           !.exit_code = "exit"]]

CollectHelpers(hs, registry) ==
    [h \in DOMAIN hs |->
        IF hs[h].pump = "done" /\ \A f \in FlowIds : registry[f] # h
        THEN GoneHelper ELSE hs[h]]

\* InspectorManager.__init__: no process, no url, not ready, nothing printed
NoInspector ==
    [process |-> 0, url |-> 0, ready |-> FALSE, pc |-> "idle", kind |-> "",
     starts |-> 0, procs |-> <<>>]

\* an /api/events stream that has not been opened
NoStream == [pc |-> "none", since |-> 0, got |-> <<>>]

Init ==
    /\ store = <<>>
    /\ active_ports = [p \in Ports |-> {}]
    /\ port_order = <<>>
    /\ processes = [p \in Ports |-> 0]
    /\ children = <<>>
    /\ openapi_helpers = [f \in FlowIds |-> 0]
    /\ helpers = <<>>
    /\ lock = <<>>
    /\ req = [t \in Tasks |-> Idle]
    /\ budget = [requests |-> 0, writes |-> 0]
    /\ listeners = <<>>
    /\ queues = [q \in Queues |-> <<>>]
    /\ streams = [q \in Queues |-> NoStream]
    /\ sent = <<>>
    /\ inspector = NoInspector

----------------------------------------------------------------------------
(* The manager's state as one value m, so that a handler can be run from    *)
(* one suspension point of the event loop to the next.  m.r is the local    *)
(* state of the running handler, m.t its task.                              *)

Machine(t, r) ==
    [store |-> store, active_ports |-> active_ports, port_order |-> port_order,
     processes |-> processes, children |-> children,
     openapi_helpers |-> openapi_helpers, helpers |-> helpers, lock |-> lock,
     t |-> t, r |-> r]

\* pcs at which the handler is suspended in an await (or has returned)
Suspended ==
    {"idle", "done", "lock", "term_wait", "stop_wait", "ensure", "ensure_wait",
     "probe", "spawn"}

\* the handler returns res (or raises it); inside "async with self.lock" the
\* lock is released
Done(m, res) ==
    [m EXCEPT !.r = [Idle EXCEPT !.pc = "done", !.kind = m.r.kind, !.fid = m.r.fid,
                                 !.res = res],
              !.lock = IF m.lock # <<>> /\ Head(m.lock) = m.t THEN Tail(m.lock) ELSE @]

\* _is_running: the process has no returncode yet
IsRunning(ch, c) == ch[c].returncode = "none"

\* _state(flow_id).running
StateRunning(procs, ch, fid) ==
    \E p \in Ports : /\ procs[p] # 0
                     /\ fid \in ch[procs[p]].flow_ids
                     /\ IsRunning(ch, procs[p])

\* stop / delete_flow: the first port, in dict order, whose member set holds the flow
RECURSIVE FirstPortOf(_, _, _)
FirstPortOf(ap, order, fid) ==
    IF order = <<>> THEN 0
    ELSE IF fid \in ap[Head(order)] THEN Head(order)
    ELSE FirstPortOf(ap, Tail(order), fid)

\* what follows _restart_port / _terminate_port in the caller
AfterPort(r) ==
    IF r.kind = "start"
    THEN IF Tail(r.chain) = <<>>
         THEN [r EXCEPT !.pc = "finish", !.chain = <<>>]
         ELSE [r EXCEPT !.pc = "activate", !.chain = Tail(r.chain)]
    ELSE [r EXCEPT !.pc = "stop_helper", !.hq = <<r.fid>>, !.hw = 0, !.ret = "finish"]

\* a faulty removal that leaves the flow in the member set
DetachNothing(ids, fid) == ids

\* a faulty removal: the member set of the port is emptied
DetachAll(ids, fid) == {}

\* ids.remove(flow_id) in stop and delete_flow
Detach(ids, fid) == ids \ {fid}

\* the first statements inside "async with self.lock"
Enter(m) ==
    LET r == m.r
        port == FirstPortOf(m.active_ports, m.port_order, r.fid)
    IN CASE r.kind = "start" ->
              [m EXCEPT !.r.pc = "activate",
                        !.r.chain = StartWithDependencies(r.flow[1], {}, m.store)]
         [] r.kind = "stop" /\ port = 0 -> Done(m, "already_stopped")
         [] r.kind = "delete" /\ port = 0 ->
              [m EXCEPT !.r.pc = "stop_helper", !.r.hq = <<r.fid>>, !.r.ret = "finish"]
         [] OTHER ->
              [m EXCEPT !.active_ports[port] = Detach(@, r.fid),
                        !.r.pc = "terminate", !.r.port = port,
                        !.r.restart = (Detach(m.active_ports[port], r.fid) # {})]

\* a faulty _activate_flow: the port is restarted also when the flow is
\* already in its member set
DoActivateAlways(m) ==
    LET r == m.r
        flow == Head(r.chain)
        port == PortForFlow(flow)
    IN [m EXCEPT !.active_ports[port] = @ \cup {flow.id},
                 !.port_order = IF port \in Range(@) THEN @ ELSE Append(@, port),
                 !.r.pc = "terminate", !.r.port = port, !.r.restart = TRUE]

\* _activate_flow on the next flow of the dependency chain
DoActivate(m) ==
    LET r == m.r
        flow == Head(r.chain)
        port == PortForFlow(flow)
    IN IF flow.id \in m.active_ports[port]
       THEN [m EXCEPT !.r = AfterPort(r)]
       ELSE [m EXCEPT !.active_ports[port] = @ \cup {flow.id},
                      !.port_order = IF port \in Range(@) THEN @ ELSE Append(@, port),
                      !.r.pc = "terminate", !.r.port = port, !.r.restart = TRUE]

\* a faulty _terminate_port: the entry is dropped without the SIGTERM and the
\* wait for the exit of the child
DoTerminateNoWait(m) == [m EXCEPT !.r.pc = "term_del"]

\* _terminate_port lines 511-513: SIGTERM to a running child and wait, or
\* straight to the del of lines 524-525
DoTerminate(m) ==
    LET r == m.r
        c == m.processes[r.port]
    IN IF c # 0 /\ IsRunning(m.children, c)
       THEN [m EXCEPT !.r.pc = "term_wait"]
       ELSE [m EXCEPT !.r.pc = "term_del"]

\* lines 524-525: del self.processes[port]; _restart_port goes on to build
DoTermDel(m) ==
    [m EXCEPT !.processes[m.r.port] = 0,
              !.r = IF m.r.restart THEN [m.r EXCEPT !.pc = "build"] ELSE AfterPort(m.r)]

\* _stop_openapi_helper for each flow id of hq in turn, up to the first
\* wait(): hw is the helper waited for (0: hq is exhausted)
RECURSIVE StopRun(_, _, _)
StopRun(hs, registry, hq) ==
    IF hq = <<>> THEN [helpers |-> hs, openapi_helpers |-> registry, hq |-> <<>>, hw |-> 0]
    ELSE LET h == registry[Head(hq)]
         IN IF h = 0 THEN StopRun(hs, registry, Tail(hq))
            ELSE IF hs[h].alive
            THEN \* lines 495-499: killpg, then wait for the exit
                 [helpers |-> [hs EXCEPT ![h].alive = FALSE],
                  openapi_helpers |-> registry, hq |-> hq, hw |-> h]
            ELSE \* line 508
                 StopRun(hs, [registry EXCEPT ![Head(hq)] = 0], Tail(hq))

\* line 508, after the wait: pop whatever is registered for the flow id now
StopPop(registry, hq) == [registry EXCEPT ![Head(hq)] = 0]

DoStopHelper(m) ==
    LET out == StopRun(m.helpers, m.openapi_helpers, m.r.hq)
    IN [m EXCEPT !.helpers = out.helpers, !.openapi_helpers = out.openapi_helpers,
                 !.r.hq = out.hq, !.r.hw = out.hw,
                 !.r.pc = IF out.hw # 0 THEN "stop_wait" ELSE m.r.ret]

StopResume(m) ==
    [m EXCEPT !.openapi_helpers = StopPop(@, m.r.hq),
              !.r.hq = Tail(m.r.hq), !.r.hw = 0, !.r.pc = "stop_helper"]

\* _restart_port lines 532-536: the flows of the port, read from the store
DoBuild(m) ==
    LET r == m.r
        flows == FilterIds(m.store, m.active_ports[r.port])
    IN [m EXCEPT !.r = IF flows = <<>> THEN AfterPort(r)
                       ELSE [r EXCEPT !.pc = "loop", !.flows = flows, !.i = 1,
                                      !.servers = {}, !.upstream_url = <<>>]]

\* the loop moves on to the next flow, or to the spawn
NextFlow(r, servers) ==
    [r EXCEPT !.servers = servers, !.i = r.i + 1, !.helper = 0,
              !.pc = IF r.i + 1 > Len(r.flows) THEN "spawn" ELSE "loop"]

\* servers[server_key] = entry
PutEntry(servers, entry) == {e \in servers : e.fid # entry.fid} \cup {entry}

NeedsHelper(flow) ==
    /\ flow.source_type = "openapi"
    /\ flow.target_type # "stdio"

\* one iteration of the loop over flows.values(), up to its first await
DoLoop(m) ==
    LET r == m.r
        flow == r.flows[r.i]
    IN IF r.port = openapi_port
       THEN IF flow.source_type = "stdio"
            THEN \* lines 553-557, then 579-584 with the upstream_url of an
                 \* earlier iteration
                 IF r.upstream_url = <<>> THEN Done(m, "internal_error")
                 ELSE [m EXCEPT !.r = NextFlow(r, PutEntry(r.servers,
                                          OpenApiUrlEntry(flow, r.upstream_url[1])))]
            ELSE [m EXCEPT !.r.pc = "probe"]
       ELSE IF NeedsHelper(flow)
            THEN [m EXCEPT !.r.pc = "ensure"]
            ELSE [m EXCEPT !.r = NextFlow(r, PutEntry(r.servers,
                                                      ProxyEntry(flow, flow.sse_url)))]

\* lines 559-584 after the readiness probes; ready: _wait_upstream_ready
ProbeResume(m, ready) ==
    LET r == m.r
        flow == r.flows[r.i]
        upstream == RewriteUpstream(flow.sse_url)
        r1 == [r EXCEPT !.upstream_url = <<upstream>>]
    IN [m EXCEPT !.r = IF ready /\ upstream # NoUrl
                       THEN NextFlow(r1, PutEntry(r.servers, OpenApiUrlEntry(flow, upstream)))
                       ELSE NextFlow(r1, r.servers)]

\* _ensure_openapi_helper lines 443-447: the registered helper runs and its
\* port answers
EnsureReuse(m) ==
    LET r == m.r
        flow == r.flows[r.i]
    IN [m EXCEPT !.r = NextFlow(r, PutEntry(r.servers,
                           ProxyEntry(flow, HelperUrl(m.openapi_helpers[flow.id]))))]

\* lines 449-484: a new helper is spawned and registered
EnsureSpawn(m) ==
    LET flow == m.r.flows[m.r.i]
        h == Len(m.helpers) + 1
    IN [m EXCEPT !.helpers = Append(@, NewHelper(flow.id)),
                 !.openapi_helpers[flow.id] = h,
                 !.r.helper = h, !.r.pc = "ensure_wait"]

\* lines 484-489: the port of the new helper has opened
EnsureReady(m) ==
    LET r == m.r
        flow == r.flows[r.i]
    IN [m EXCEPT !.r = NextFlow(r, PutEntry(r.servers,
                                            ProxyEntry(flow, HelperUrl(r.helper))))]

\* lines 657-670: the gateway is spawned, recorded, and its pump started
SpawnChild(m) ==
    LET r == m.r
        c == Len(m.children) + 1
    IN [m EXCEPT !.children = Append(@, NewChild(r.port, m.active_ports[r.port], r.servers)),
                 !.processes[r.port] = c,
                 !.r = AfterPort(r)]

\* return await self._state(flow_id); delete_flow returns {"status": "deleted"}
DoFinish(m) ==
    Done(m, IF m.r.kind = "delete" THEN "deleted"
            ELSE IF StateRunning(m.processes, m.children, m.r.fid) THEN "running"
            ELSE "not_running")

\* one statement block of the running handler
Micro(m) ==
    CASE m.r.pc = "enter" -> Enter(m)
      [] m.r.pc = "activate" -> DoActivate(m)
      [] m.r.pc = "terminate" -> DoTerminate(m)
      [] m.r.pc = "term_del" -> DoTermDel(m)
      [] m.r.pc = "stop_helper" -> DoStopHelper(m)
      [] m.r.pc = "build" -> DoBuild(m)
      [] m.r.pc = "loop" -> DoLoop(m)
      [] m.r.pc = "finish" -> DoFinish(m)

\* the handler runs until it suspends or returns
RECURSIVE Run(_)
Run(m) == IF m.r.pc \in Suspended THEN m ELSE Run(Micro(m))

\* the event loop takes over: the state the handler leaves behind
Commit(m) ==
    /\ active_ports' = m.active_ports
    /\ port_order' = m.port_order
    /\ processes' = m.processes
    /\ children' = Collect(m.children, m.processes)
    /\ openapi_helpers' = m.openapi_helpers
    /\ helpers' = CollectHelpers(m.helpers, m.openapi_helpers)
    /\ lock' = m.lock
    /\ req' = [req EXCEPT ![m.t] = m.r]

\* the handler of task t goes on from m
Go(m) == Commit(Run(m))

----------------------------------------------------------------------------
(* The event loop: which callback runs next *)

\* a response that is ready is sent before anything else runs
Quiet == \A t \in DOMAIN req : req[t].pc # "done"

\* the exited processes whose pump still has to see the end of the stream
Pending(ch, hs) ==
    Cardinality({c \in DOMAIN ch : ch[c].returncode # "none" /\ ch[c].pump = "reading"})
    + Cardinality({h \in DOMAIN hs : ~hs[h].alive /\ hs[h].pump = "reading"})

\* the backlog of pumps is short enough for a handler to run, or for another
\* process to exit
Calm == Quiet /\ Pending(children, helpers) < MaxPending

----------------------------------------------------------------------------
(* Flow CRUD (create_flow, update_flow): no suspension point *)

WriteRejected(source_type, target_type) ==
    source_type = "openapi" /\ target_type # "streamable_http"

NewRecord(id, payload) ==
    [id |-> id, route |-> RouteOf(id), source_type |-> payload.source_type,
     target_type |-> payload.target_type, sse_url |-> payload.sse_url]

CreateFlow(id, payload) ==
    /\ Quiet
    /\ budget.writes < MaxWrites
    /\ budget' = [budget EXCEPT !.writes = @ + 1]
    /\ store' = IF WriteRejected(payload.source_type, payload.target_type) THEN store
                ELSE StoreUpsert(store, NewRecord(id, payload))
    /\ UNCHANGED <<active_ports, port_order, processes, children,
                   openapi_helpers, helpers, lock, req>>
    /\ UNCHANGED Events
    /\ UNCHANGED inspector

\* data.update({k: v ... if v is not None}): the payload gives the three
\* fields (sse_url "" for none); route is left None and keeps its value
UpdatedRecord(existing, payload) ==
    [existing EXCEPT !.source_type = payload.source_type,
                     !.target_type = payload.target_type,
                     !.sse_url = payload.sse_url]

UpdateFlow(id, payload) ==
    /\ Quiet
    /\ budget.writes < MaxWrites
    /\ budget' = [budget EXCEPT !.writes = @ + 1]
    /\ StoreGet(store, id) # <<>>
    /\ LET data == UpdatedRecord(StoreGet(store, id)[1], payload)
       IN store' = IF WriteRejected(data.source_type, data.target_type) THEN store
                   ELSE StoreUpsert(store, data)
    /\ UNCHANGED <<active_ports, port_order, processes, children,
                   openapi_helpers, helpers, lock, req>>
    /\ UNCHANGED Events
    /\ UNCHANGED inspector

----------------------------------------------------------------------------
(* start_flow / stop_flow / delete_flow *)

\* a new request runs in the first free task slot
Free(t) == req[t].pc = "idle" /\ \A u \in DOMAIN req : u < t => req[u].pc # "idle"

Received(t) ==
    /\ Calm
    /\ Free(t)
    /\ budget.requests < MaxRequests
    /\ budget' = [budget EXCEPT !.requests = @ + 1]

\* a faulty handler that does not wait for the lock
LockingUnheld(t, r) ==
    [Machine(t, [r EXCEPT !.pc = "enter"]) EXCEPT !.lock = Append(lock, t)]

\* "async with self.lock": the body starts at once when the lock is free
Locking(t, r) ==
    [Machine(t, [r EXCEPT !.pc = IF lock = <<>> THEN "enter" ELSE "lock"])
        EXCEPT !.lock = Append(lock, t)]

NotFound(t, kind, fid) ==
    /\ req' = [req EXCEPT ![t] = [Idle EXCEPT !.pc = "done", !.kind = kind,
                                              !.fid = fid, !.res = "not_found"]]
    /\ UNCHANGED <<active_ports, port_order, processes, children,
                   openapi_helpers, helpers, lock>>

StartFlow(t, fid) ==
    /\ Received(t)
    /\ store' = store
    /\ IF StoreGet(store, fid) = <<>> THEN NotFound(t, "start", fid)
       ELSE Go(Locking(t, [Idle EXCEPT !.kind = "start", !.fid = fid,
                                       !.flow = StoreGet(store, fid)]))
    /\ UNCHANGED Events
    /\ UNCHANGED inspector

StopFlow(t, fid) ==
    /\ Received(t)
    /\ store' = store
    /\ Go(Locking(t, [Idle EXCEPT !.kind = "stop", !.fid = fid]))
    /\ UNCHANGED Events
    /\ UNCHANGED inspector

DeleteFlow(t, fid) ==
    /\ Received(t)
    /\ IF StoreGet(store, fid) = <<>>
       THEN store' = store /\ NotFound(t, "delete", fid)
       ELSE /\ store' = StoreDelete(store, fid)
            /\ Go([Locking(t, [Idle EXCEPT !.kind = "delete", !.fid = fid])
                      EXCEPT !.store = StoreDelete(store, fid)])
    /\ UNCHANGED Events
    /\ UNCHANGED inspector

\* the response has been sent
Retire(t) ==
    /\ req[t].pc = "done"
    /\ req' = [req EXCEPT ![t] = Idle]
    /\ UNCHANGED <<store, active_ports, port_order, processes, children,
                   openapi_helpers, helpers, lock, budget>>
    /\ UNCHANGED Events
    /\ UNCHANGED inspector

----------------------------------------------------------------------------
(* The handler resumes from an await *)

\* the lock is handed to the first waiter
LockGranted(t) ==
    /\ Calm
    /\ req[t].pc = "lock"
    /\ Head(lock) = t
    /\ UNCHANGED <<store, budget>>
    /\ Go([Machine(t, req[t]) EXCEPT !.r.pc = "enter"])
    /\ UNCHANGED Events
    /\ UNCHANGED inspector

\* _terminate_port lines 514-522: the child has exited, on SIGTERM or on the
\* SIGKILL that follows the 5 s wait; exit_code is recorded and the helpers
\* of its flows are stopped
TermResume(m, rc) ==
    LET c == m.processes[m.r.port]
    IN [m EXCEPT !.children[c].returncode = rc, !.children[c].exit_code = rc,
                 !.r.hq = SetToSeq(m.children[c].flow_ids), !.r.hw = 0,
                 !.r.ret = "term_del", !.r.pc = "stop_helper"]

TermWait(t) ==
    /\ Calm
    /\ req[t].pc = "term_wait"
    /\ UNCHANGED <<store, budget>>
    /\ LET c == processes[req[t].port]
       IN \E rc \in (IF IsRunning(children, c) THEN {"term", "kill"}
                     ELSE {children[c].returncode}) :
             Go(TermResume(Machine(t, req[t]), rc))
    /\ UNCHANGED Events
    /\ UNCHANGED inspector

StopWait(t) ==
    /\ Calm
    /\ req[t].pc = "stop_wait"
    /\ UNCHANGED <<store, budget>>
    /\ Go(StopResume(Machine(t, req[t])))
    /\ UNCHANGED Events
    /\ UNCHANGED inspector

HelperRunning(fid) ==
    openapi_helpers[fid] # 0 /\ helpers[openapi_helpers[fid]].alive

\* _ensure_openapi_helper up to the wait for the new helper's port
Ensure(t) ==
    /\ Calm
    /\ req[t].pc = "ensure"
    /\ UNCHANGED <<store, budget>>
    /\ LET m == Machine(t, req[t])
       IN \/ HelperRunning(req[t].flows[req[t].i].id) /\ Go(EnsureReuse(m))
          \/ Len(helpers) < MaxHelpers /\ Go(EnsureSpawn(m))
          \/ Go(Done(m, "npx_missing"))
    /\ UNCHANGED Events
    /\ UNCHANGED inspector

\* the port of the new helper opens within the 5 s, or not
EnsureWait(t) ==
    /\ Calm
    /\ req[t].pc = "ensure_wait"
    /\ UNCHANGED <<store, budget>>
    /\ LET m == Machine(t, req[t])
       IN \/ helpers[req[t].helper].alive /\ Go(EnsureReady(m))
          \/ Go(Done(m, "readiness_timeout"))
    /\ UNCHANGED Events
    /\ UNCHANGED inspector

\* the readiness probes of the OpenAPI port answer, or time out
Probe(t) ==
    /\ Calm
    /\ req[t].pc = "probe"
    /\ UNCHANGED <<store, budget>>
    /\ \E ready \in BOOLEAN : Go(ProbeResume(Machine(t, req[t]), ready))
    /\ UNCHANGED Events
    /\ UNCHANGED inspector

\* create_subprocess_exec of the gateway: started, or FileNotFoundError
Spawn(t) ==
    /\ Calm
    /\ req[t].pc = "spawn"
    /\ UNCHANGED <<store, budget>>
    /\ LET m == Machine(t, req[t])
       IN \/ Len(children) < MaxChildren /\ Go(SpawnChild(m))
          \/ Go(Done(m, "binary_missing"))
    /\ UNCHANGED Events
    /\ UNCHANGED inspector

----------------------------------------------------------------------------
(* The processes themselves, and their log pumps (_pipe_logs) *)

\* a gateway child exits on its own
ChildExit(c) ==
    /\ Calm
    /\ IsRunning(children, c)
    /\ children' = [children EXCEPT ![c].returncode = "exit"]
    /\ UNCHANGED <<store, active_ports, port_order, processes, openapi_helpers,
                   helpers, lock, req, budget>>
    /\ UNCHANGED Events
    /\ UNCHANGED inspector

\* a helper exits on its own
HelperExit(h) ==
    /\ Calm
    /\ helpers[h].alive
    /\ helpers' = [helpers EXCEPT ![h].alive = FALSE]
    /\ UNCHANGED <<store, active_ports, port_order, processes, children,
                   openapi_helpers, lock, req, budget>>
    /\ UNCHANGED Events
    /\ UNCHANGED inspector

\* lines 313-317: the flow ids of the exited process whose flow, in the store
\* as it is now, has an openapi source
PumpTargets(ids) ==
    SelectSeq(SetToSeq(ids),
              LAMBDA fid : \E i \in DOMAIN store :
                              store[i].id = fid /\ store[i].source_type = "openapi")

PumpState(out) ==
    [pump |-> IF out.hw # 0 THEN "stop_wait" ELSE "done", hq |-> out.hq, hw |-> out.hw]

\* the pump of gateway child c after out, a run of helper stops
PumpCommit(c, out, exit_code) ==
    /\ openapi_helpers' = out.openapi_helpers
    /\ helpers' = CollectHelpers(out.helpers, out.openapi_helpers)
    /\ children' = Collect([children EXCEPT ![c].exit_code = exit_code,
                                            ![c].pump = PumpState(out).pump,
                                            ![c].hq = out.hq, ![c].hw = out.hw],
                           processes)
    /\ UNCHANGED <<store, active_ports, port_order, processes, lock, req, budget>>

\* lines 292-317 for a gateway child: end of stream, exit_code, flow_exited,
\* then the helpers of its openapi flows
PumpEOF(c) ==
    /\ Quiet
    /\ ~IsRunning(children, c)
    /\ children[c].pump = "reading"
    /\ PumpCommit(c, StopRun(helpers, openapi_helpers, PumpTargets(children[c].flow_ids)),
                  children[c].returncode)
    /\ UNCHANGED Events
    /\ UNCHANGED inspector

PumpStopWait(c) ==
    /\ Quiet
    /\ children[c].pump = "stop_wait"
    /\ PumpCommit(c, StopRun(helpers, StopPop(openapi_helpers, children[c].hq),
                             Tail(children[c].hq)),
                  children[c].exit_code)
    /\ UNCHANGED Events
    /\ UNCHANGED inspector

\* the same pump, attached to helper h (line 482)
HelperPumpCommit(h, out) ==
    /\ openapi_helpers' = out.openapi_helpers
    /\ helpers' = CollectHelpers([out.helpers EXCEPT ![h].pump = PumpState(out).pump,
                                                     ![h].hq = out.hq, ![h].hw = out.hw],
                                 out.openapi_helpers)
    /\ UNCHANGED <<store, active_ports, port_order, processes, children, lock, req, budget>>

HelperPumpEOF(h) ==
    /\ Quiet
    /\ ~helpers[h].alive
    /\ helpers[h].pump = "reading"
    /\ HelperPumpCommit(h, StopRun(helpers, openapi_helpers, PumpTargets({helpers[h].fid})))
    /\ UNCHANGED Events
    /\ UNCHANGED inspector

HelperPumpStopWait(h) ==
    /\ Quiet
    /\ helpers[h].pump = "stop_wait"
    /\ HelperPumpCommit(h, StopRun(helpers, StopPop(openapi_helpers, helpers[h].hq),
                                   Tail(helpers[h].hq)))
    /\ UNCHANGED Events
    /\ UNCHANGED inspector

----------------------------------------------------------------------------

Next ==
    \/ \E id \in FlowIds, payload \in Payloads : UpdateFlow(id, payload)
    \/ \E id \in FlowIds, payload \in Payloads : CreateFlow(id, payload)
    \/ \E t \in Tasks, fid \in FlowIds : StartFlow(t, fid)
    \/ \E t \in Tasks, fid \in FlowIds : StopFlow(t, fid)
    \/ \E t \in Tasks, fid \in FlowIds : DeleteFlow(t, fid)
    \/ \E t \in Tasks : Retire(t)
    \/ \E t \in Tasks : LockGranted(t)
    \/ \E t \in Tasks : TermWait(t)
    \/ \E t \in Tasks : StopWait(t)
    \/ \E t \in Tasks : Ensure(t)
    \/ \E t \in Tasks : EnsureWait(t)
    \/ \E t \in Tasks : Probe(t)
    \/ \E t \in Tasks : Spawn(t)
    \/ \E c \in DOMAIN children : ChildExit(c)
    \/ \E h \in DOMAIN helpers : HelperExit(h)
    \/ \E c \in DOMAIN children : PumpEOF(c)
    \/ \E c \in DOMAIN children : PumpStopWait(c)
    \/ \E h \in DOMAIN helpers : HelperPumpEOF(h)
    \/ \E h \in DOMAIN helpers : HelperPumpStopWait(h)

Spec == Init /\ [][Next]_vars

----------------------------------------------------------------------------
(* Notions the properties below are stated with *)

\* the ports whose member set holds the flow id
Members(fid) == {p \in Ports : fid \in active_ports[p]}

\* no start / stop / delete request is in progress
NoRequest == \A t \in Tasks : req[t].pc = "idle"

\* the gateway children of port p that have not exited
LiveChildren(p) == {c \in DOMAIN children : children[c].port = p /\ IsRunning(children, c)}

\* port p has a child entry and that child runs
LiveOn(procs, ch, p) == procs[p] # 0 /\ IsRunning(ch, procs[p])

----------------------------------------------------------------------------
(* Gateway children *)

\* C1: each gateway port has at most one live gateway child, and a live
\* child is the one the port's entry of the child table refers to: the
\* previous child of a port has exited before the next one is spawned
OneLiveChildPerPort ==
    /\ \A p \in Ports : Cardinality(LiveChildren(p)) <= 1
    /\ \A c \in DOMAIN children :
          IsRunning(children, c) => processes[children[c].port] = c

\* a port has been restarted: its child serves two flows and an earlier
\* child has exited
C1_Restarted ==
    \E p \in Ports :
       /\ LiveOn(processes, children, p)
       /\ Cardinality(children[processes[p]].flow_ids) = 2
       /\ \E c \in DOMAIN children : ~IsRunning(children, c)

----------------------------------------------------------------------------
(* Port membership *)

\* C2: a flow id is in the member set of at most one port, and that port is
\* the one the target_type of its stored record maps to
MemberOfOwnPortOnly ==
    NoRequest =>
       /\ \A fid \in FlowIds : Cardinality(Members(fid)) <= 1
       /\ \A i \in DOMAIN store : Members(store[i].id) \subseteq {PortForFlow(store[i])}

\* a flow is attached to two ports at once
C2_TwoPorts == NoRequest /\ \E fid \in FlowIds : Cardinality(Members(fid)) = 2

\* C3: with no request in progress, every member of a port's member set is
\* served: the port has a current child, spawned from a config with an entry
\* for that flow
MembersAreServed ==
    NoRequest =>
       \A p \in Ports : \A fid \in active_ports[p] :
          /\ processes[p] # 0
          /\ \E e \in children[processes[p]].cfg : e.fid = fid

\* a port has members and no child at all
C3_MembersWithoutChild ==
    NoRequest /\ \E p \in Ports : active_ports[p] # {} /\ processes[p] = 0

\* the entry e is the one _restart_port builds from the record flow
BuiltFrom(e, flow, hs) ==
    IF PortForFlow(flow) = openapi_port
    THEN IF flow.source_type = "stdio" THEN e = ProxyEntry(flow, NoUrl)
         ELSE e = OpenApiUrlEntry(flow, RewriteUpstream(flow.sse_url))
    ELSE IF NeedsHelper(flow) THEN \E h \in DOMAIN hs : e = ProxyEntry(flow, HelperUrl(h))
    ELSE e = ProxyEntry(flow, flow.sse_url)

\* C4: an update_flow that changes the record of a flow that is attached to
\* a port and served by its live child, with no other request in progress,
\* restarts the port: when it has returned, the port of the flow has a live
\* child spawned from a config built from the updated record
UpdateRestartsPort ==
    [][\A id \in FlowIds, payload \in Payloads :
          (/\ UpdateFlow(id, payload)
           /\ store' # store
           /\ NoRequest
           /\ \E p \in Members(id) : LiveOn(processes, children, p)) =>
             LET flow == StoreGet(store', id)[1]
                 p == PortForFlow(flow)
             IN /\ LiveOn(processes', children', p)
                /\ \E e \in children'[processes'[p]].cfg : BuiltFrom(e, flow, helpers')]_vars

\* an attached flow is served by a live child whose config was built from an
\* older record
C4_StaleConfig ==
    NoRequest /\ \E i \in DOMAIN store, p \in Ports :
       /\ store[i].id \in active_ports[p]
       /\ LiveOn(processes, children, p)
       /\ \E e \in children[processes[p]].cfg :
             e.fid = store[i].id /\ ~BuiltFrom(e, store[i], helpers)

----------------------------------------------------------------------------
(* Failed starts *)

\* the handler of task t returns in this step
Returns(t) == req[t].pc # "done" /\ req'[t].pc = "done"

\* the call returned a state, no error
Accepted(res) == res \in {"running", "not_running", "deleted"}

\* C5: when the spawn of the gateway binary fails with not-found during a
\* start, the flow that was being attached is not in the member set of the
\* port when the call returns
SpawnFailureDetaches ==
    [][\A t \in Tasks :
          (/\ Returns(t)
           /\ req[t].pc = "spawn"
           /\ req[t].kind = "start"
           /\ req'[t].res = "binary_missing") =>
             Head(req[t].chain).id \notin active_ports'[req[t].port]]_vars

\* a start was rejected for the missing gateway binary, and its flow is
\* attached to a port that has no child
C5_RejectedButAttached ==
    \E t \in Tasks :
       /\ req[t].pc = "done" /\ req[t].kind = "start" /\ req[t].res = "binary_missing"
       /\ \E p \in Members(req[t].fid) : processes[p] = 0

\* C6: when the port of the OpenAPI helper does not open in time during
\* start(F), F is in no member set when the call returns
HelperTimeoutDetaches ==
    [][\A t \in Tasks :
          (/\ Returns(t)
           /\ req[t].pc = "ensure_wait"
           /\ req[t].kind = "start"
           /\ req'[t].res = "readiness_timeout") =>
             Members(req[t].fid)' = {}]_vars

\* a start failed on the helper's readiness, and its flow is attached
C6_TimedOutButAttached ==
    \E t \in Tasks :
       /\ req[t].pc = "done" /\ req[t].kind = "start"
       /\ req[t].res = "readiness_timeout"
       /\ Members(req[t].fid) # {}

----------------------------------------------------------------------------
(* OpenAPI helpers *)

\* the helpers spawned for the flow that have not exited
LiveHelpers(fid) == {h \in DOMAIN helpers : helpers[h].fid = fid /\ helpers[h].alive}

\* C7: at most one helper spawned for a flow is alive at any time
OneLiveHelperPerFlow == \A fid \in FlowIds : Cardinality(LiveHelpers(fid)) <= 1

\* two helpers of one flow are alive, one of them no longer registered
C7_TwoHelpers ==
    \E fid \in FlowIds : \E h \in LiveHelpers(fid) :
       Cardinality(LiveHelpers(fid)) = 2 /\ openapi_helpers[fid] # h

\* C8: with no request in progress, a helper is registered for a flow
\* exactly if the flow has an openapi source and is attached to a port
\* other than the OpenAPI port whose child was spawned from a config that
\* uses the URL of that helper
HelperRegisteredIffUsed ==
    NoRequest =>
       \A fid \in FlowIds :
          openapi_helpers[fid] # 0 <=>
             \E i \in DOMAIN store, p \in Ports \ {openapi_port} :
                /\ store[i].id = fid
                /\ store[i].source_type = "openapi"
                /\ fid \in active_ports[p]
                /\ processes[p] # 0
                /\ ProxyEntry(store[i], HelperUrl(openapi_helpers[fid]))
                      \in children[processes[p]].cfg

\* a helper is registered for a flow whose port has no child
C8_RegisteredAfterFailedStart ==
    NoRequest /\ \E fid \in FlowIds :
       /\ openapi_helpers[fid] # 0
       /\ \A p \in Members(fid) : processes[p] = 0

----------------------------------------------------------------------------
(* Dependencies *)

\* the handler of task t takes this step
Steps(t) == req'[t] # req[t]

\* the dependency chain the start handler of task t is working on before
\* this step: resolved in this step when the handler enters the lock
ChainAt(t) ==
    IF req[t].pc \in {"idle", "lock"}
    THEN StartWithDependencies(req'[t].flow[1], {}, store)
    ELSE req[t].chain

\* C9: when start(B) comes to restart the port of a flow of its dependency
\* chain, every upstream flow before it in the chain is attached to its port
\* and the child of that port is alive; and when the spawn of the last port
\* succeeds and start(B) returns, the child of that port is alive
UpstreamStartedFirst ==
    [][\A t \in Tasks :
          /\ (/\ Steps(t)
               /\ req'[t].kind = "start"
               /\ req'[t].pc \notin {"idle", "lock", "done"}) =>
                 \A k \in 1..(Len(ChainAt(t)) - Len(req'[t].chain)) :
                    LET upstream == ChainAt(t)[k]
                    IN /\ upstream.id \in active_ports'[PortForFlow(upstream)]
                       /\ LiveOn(processes', children', PortForFlow(upstream))
          /\ (/\ Returns(t)
               /\ req[t].pc = "spawn"
               /\ req[t].kind = "start"
               /\ Accepted(req'[t].res)) =>
                 LiveOn(processes', children', req[t].port)]_vars

\* start(B) goes on to the port of B while the child of the port the
\* upstream flow is attached to has exited
C9_UpstreamDead ==
    \E t \in Tasks :
       /\ req[t].kind = "start" /\ req[t].pc = "spawn"
       /\ Len(req[t].chain) = 1
       /\ ResolveDependency(req[t].chain[1], store) # <<>>
       /\ LET upstream == ResolveDependency(req[t].chain[1], store)[1]
          IN /\ upstream.id # req[t].fid
             /\ upstream.id \in active_ports[PortForFlow(upstream)]
             /\ ~LiveOn(processes, children, PortForFlow(upstream))

----------------------------------------------------------------------------
(* stop *)

\* the stop handler of task t takes this step
StopSteps(t) ==
    /\ Steps(t)
    /\ (IF req[t].pc = "idle" THEN req'[t].kind ELSE req[t].kind) = "stop"

\* the port that stop works on: the first one that holds the flow
StopPort(t) ==
    IF req[t].pc \in {"idle", "lock"}
    THEN FirstPortOf(active_ports, port_order, req'[t].fid)
    ELSE req[t].port

----------------------------------------------------------------------------
(* Repeated calls *)

\* what the handler of a request of that kind for fid leaves behind when it
\* is called now, in task t, and runs up to its first suspension
CallNow(t, kind, fid) ==
    Run(Locking(t, [Idle EXCEPT !.kind = kind, !.fid = fid,
                                !.flow = IF kind = "start" THEN StoreGet(store, fid)
                                         ELSE <<>>]))

\* the handler that ran up to m has changed nothing in the manager
Untouched(m) ==
    /\ m.active_ports = active_ports
    /\ m.port_order = port_order
    /\ m.processes = processes
    /\ m.children = children
    /\ m.openapi_helpers = openapi_helpers
    /\ m.helpers = helpers

\* the records of fid and of its upstreams are the ones a start(fid) has
\* attached: each is a member of the port its record names
ChainAttached(fid) ==
    /\ StoreGet(store, fid) # <<>>
    /\ \A f \in Range(StartWithDependencies(StoreGet(store, fid)[1], {}, store)) :
          f.id \in active_ports[PortForFlow(f)]

\* C11: when start(F) has just returned a state and nothing has happened
\* since (the records it attached are still the stored ones), a second
\* start(F) returns at once, with the same state, and leaves the member sets,
\* the child table, the children and the helpers as they are
SecondStartIsNoOp ==
    \A t \in Tasks :
       (/\ req[t].pc = "done" /\ req[t].kind = "start" /\ Accepted(req[t].res)
        /\ lock = <<>>
        /\ ChainAttached(req[t].fid)) =>
          LET m == CallNow(t, "start", req[t].fid)
          IN /\ m.r.pc = "done"
             /\ m.r.res = req[t].res
             /\ Untouched(m)

\* start(F) has just returned running, with a live child serving F
C11_StartedOnce ==
    \E t \in Tasks :
       /\ req[t].pc = "done" /\ req[t].kind = "start" /\ req[t].res = "running"
       /\ lock = <<>>
       /\ ChainAttached(req[t].fid)
       /\ StateRunning(processes, children, req[t].fid)

\* stop(fid), called now, is rejected as already stopped and changes nothing
StopRejectedNow(t, fid) ==
    LET m == CallNow(t, "stop", fid)
    IN /\ m.r.pc = "done"
       /\ m.r.res = "already_stopped"
       /\ Untouched(m)

\* stop(F) on a flow that is in no member set is rejected and changes nothing
StopOfDetachedRejected ==
    \A t \in Tasks, fid \in FlowIds :
       (lock = <<>> /\ Members(fid) = {}) => StopRejectedNow(t, fid)

\* the second of two consecutive stop(F) is rejected and changes nothing
SecondStopRejected ==
    \A t \in Tasks :
       (req[t].pc = "done" /\ req[t].kind = "stop" /\ lock = <<>>) =>
          StopRejectedNow(t, req[t].fid)

\* C12: stop(F) on a flow that is in no member set is rejected as already
\* stopped and changes no supervisor state, and so is the second of two
\* consecutive stop(F)
StopTwiceRejected == StopOfDetachedRejected /\ SecondStopRejected

\* stop(F) has just returned a state and F is still in a member set
C12_StoppedButAttached ==
    \E t \in Tasks :
       /\ req[t].pc = "done" /\ req[t].kind = "stop" /\ Accepted(req[t].res)
       /\ lock = <<>>
       /\ Members(req[t].fid) # {}

\* the live children whose config has an entry for fid
ServedBy(fid) ==
    {c \in DOMAIN children :
        IsRunning(children, c) /\ \E e \in children[c].cfg : e.fid = fid}

\* C13: when delete_flow(F) has returned, F is in no member set, no live
\* gateway child was spawned from a config that contains F, and no helper is
\* registered for F
DeleteLeavesNothing ==
    \A t \in Tasks :
       (req[t].pc = "done" /\ req[t].kind = "delete" /\ req[t].res = "deleted") =>
          /\ Members(req[t].fid) = {}
          /\ ServedBy(req[t].fid) = {}
          /\ openapi_helpers[req[t].fid] = 0

\* delete_flow(F) has returned and a live child still serves F
C13_DeletedButServed ==
    \E t \in Tasks :
       /\ req[t].pc = "done" /\ req[t].kind = "delete" /\ req[t].res = "deleted"
       /\ ServedBy(req[t].fid) # {}

\* the entry of the OpenAPI config that lines 553-584 mean for a flow
OpenApiEntry(flow) ==
    IF flow.source_type = "stdio" THEN ProxyEntry(flow, NoUrl)
    ELSE OpenApiUrlEntry(flow, RewriteUpstream(flow.sse_url))

\* the restart of task t is at the readiness probe of a flow: what it leaves
\* behind when the probe fails
ProbeFailedNow(t) == Run(ProbeResume(Machine(t, req[t]), FALSE))

\* a failed readiness probe raises nothing and leaves the flow out of the
\* config, and the entries written before stay
ProbeFailureSkips ==
    \A t \in Tasks :
       req[t].pc = "probe" =>
          LET m == ProbeFailedNow(t)
              flow == req[t].flows[req[t].i]
          IN /\ m.r.pc \in {"probe", "spawn"}
             /\ \A e \in m.r.servers : e.fid # flow.id
             /\ {e \in req[t].servers : e.fid # flow.id} \subseteq m.r.servers

\* the gateway of the OpenAPI port is spawned with the entry of every
\* attached flow but the flows whose probe failed
SpawnedWithTheOthers ==
    \A t \in Tasks :
       (req[t].pc = "spawn" /\ req[t].port = openapi_port) =>
          \A i \in DOMAIN req[t].flows :
             LET flow == req[t].flows[i]
             IN \/ OpenApiEntry(flow) \in req[t].servers
                \/ /\ flow.source_type # "stdio"
                   /\ \A e \in req[t].servers : e.fid # flow.id

\* C20: in a restart of the OpenAPI port a flow whose upstream fails the
\* readiness probe is left out of the config, nothing is raised, and the
\* gateway is spawned with the entry of every other attached flow
ProbeFailureIsSwallowed == ProbeFailureSkips /\ SpawnedWithTheOthers

\* the OpenAPI gateway is about to be spawned, one flow was left out and a
\* stdio flow has another flow's URL as its entry
C20_SkippedAndOverwritten ==
    \E t \in Tasks :
       /\ req[t].pc = "spawn" /\ req[t].port = openapi_port
       /\ \E i, j \in DOMAIN req[t].flows :
             /\ \A e \in req[t].servers : e.fid # req[t].flows[i].id
             /\ req[t].flows[j].source_type = "stdio"
             /\ OpenApiEntry(req[t].flows[j]) \notin req[t].servers

\* ---------------------------------------------------------------------------
\* Reported state, test preview, emitted config
\* ---------------------------------------------------------------------------

\* _state(flow_id): the state of the running child the flow is attached to,
\* and nothing but running = False otherwise
FlowState(procs, ch, fid) ==
    IF StateRunning(procs, ch, fid)
    THEN LET p == CHOOSE p \in Ports : /\ procs[p] # 0
                                       /\ fid \in ch[procs[p]].flow_ids
                                       /\ IsRunning(ch, procs[p])
         IN  [running |-> TRUE, port |-> ch[procs[p]].port,
              exit_code |-> ch[procs[p]].exit_code]
    ELSE [running |-> FALSE]

\* the child the table holds for port p has exited and fid was attached to it
ExitedOn(p, fid) ==
    /\ processes[p] # 0
    /\ ~IsRunning(children, processes[p])
    /\ fid \in children[processes[p]].flow_ids

\* C22: after a gateway child has exited, the state reported for each flow
\* that was attached to it has running = false and carries the exit code of
\* that child
ExitedStateCarriesCode ==
    \A p \in Ports, fid \in FlowIds :
       (ExitedOn(p, fid) /\ ~StateRunning(processes, children, fid)) =>
          LET s == FlowState(processes, children, fid)
          IN  /\ s.running = FALSE
              /\ "exit_code" \in DOMAIN s
              /\ s.exit_code = children[processes[p]].returncode

\* a child has exited, its pump has recorded the exit code, and the state of
\* its flow is asked for
C22_ExitedAndRecorded ==
    \E p \in Ports, fid \in FlowIds :
       /\ ExitedOn(p, fid)
       /\ children[processes[p]].exit_code = "exit"
       /\ FlowState(processes, children, fid) = [running |-> FALSE]

PROXY_BINARY == "mcp-proxy"
\* shlex.split(OPENAPI_BIN)
OPENAPI_BIN == <<"uvx", "mcpo">>

\* _build_command: the argv and the port of a gateway for this one flow, its
\* config written under the id of the flow
BuildCommand(flow) ==
    LET chosen_port == IF flow.target_type = "streamable_http" THEN stream_port
                       ELSE sse_port
    IN  [cmd |-> <<PROXY_BINARY, "-config", <<flow.id, ".config.json">>>>,
         port |-> chosen_port]

\* ProcessManager.test, when the binary answers --version
Test(flow) ==
    [ok |-> TRUE, command |-> BuildCommand(flow).cmd, port |-> BuildCommand(flow).port]

\* the argv _restart_port spawns the child of a port with
ChildArgv(port) ==
    IF port = openapi_port
    THEN OPENAPI_BIN \o <<"--port", port, "--config",
                          <<"port-", port, "-openapi.config.json">>, "--hot-reload">>
    ELSE <<PROXY_BINARY, "-config", <<"port-", port, ".config.json">>>>

\* the live child that a start spawned for the flow, on the port of the flow
SpawnedFor(flow, c) ==
    /\ processes[PortForFlow(flow)] = c
    /\ c # 0
    /\ IsRunning(children, c)
    /\ flow.id \in children[c].flow_ids

\* C23: the argv and the port that test_flow returns for a flow are the argv
\* and the port of the gateway child that start_flow spawns for that flow
TestPreviewsStart ==
    \A i \in DOMAIN store : \A c \in DOMAIN children :
       SpawnedFor(store[i], c) =>
          /\ Test(store[i]).port = children[c].port
          /\ Test(store[i]).command = ChildArgv(children[c].port)

\* a flow served on the OpenAPI port is previewed on the SSE port
C23_PreviewOnOtherPort ==
    \E i \in DOMAIN store : \E c \in DOMAIN children :
       /\ SpawnedFor(store[i], c)
       /\ children[c].port = openapi_port
       /\ Test(store[i]).port = sse_port
       /\ Test(store[i]).command[1] # ChildArgv(children[c].port)[1]

\* the restart of the OpenAPI port raised on a stdio flow met before any
\* url flow
RaisedOnStdio(t) == req[t].pc = "done" /\ req[t].res = "internal_error"

\* C24: in the config emitted for the OpenAPI port the entry of every
\* stdio-source flow is its command entry, and the restart raises no error
\* when such a flow is the first or the only member of the port
StdioEntryIsCommand ==
    \A t \in Tasks :
       /\ ~RaisedOnStdio(t)
       /\ (req[t].pc = "spawn" /\ req[t].port = openapi_port) =>
             \A i \in DOMAIN req[t].flows :
                req[t].flows[i].source_type = "stdio" =>
                   \A e \in req[t].servers :
                      e.fid = req[t].flows[i].id => e = ProxyEntry(req[t].flows[i], NoUrl)

\* the start of a stdio flow that is the only member of the OpenAPI port has
\* raised
C24_OnlyMemberRaises ==
    \E t \in Tasks :
       /\ RaisedOnStdio(t)
       /\ req[t].kind = "start"
       /\ active_ports[openapi_port] = {req[t].fid}
       /\ \E i \in DOMAIN store : store[i].id = req[t].fid /\ store[i].source_type = "stdio"

\* ---------------------------------------------------------------------------
\* Detaching, cycles, the mutex, late pumps, deleted members
\* ---------------------------------------------------------------------------

\* the handler of task t takes a step of a stop or of a delete_flow
DetachSteps(t) ==
    /\ Steps(t)
    /\ (IF req[t].pc = "idle" THEN req'[t].kind ELSE req[t].kind) \in {"stop", "delete"}

\* the flows whose entry on port p does not depend on a readiness probe
Unprobed(p, st) ==
    {st[i].id : i \in {j \in DOMAIN st : p # openapi_port \/ st[j].source_type = "stdio"}}

\* C26: when stop(F) or delete_flow(F) takes F out of a port, then if F was
\* the last member the child of the port is terminated and no child is
\* spawned, and otherwise the port is restarted and the config of the new
\* child has entries for exactly the remaining members (but those left out
\* on a failed readiness probe)
DetachTerminatesOrRestarts ==
    [][\A t \in Tasks :
          (DetachSteps(t) /\ StopPort(t) # 0) =>
             LET p == StopPort(t)
                 c == Len(children')
                 entries == {e.fid : e \in children'[c].cfg}
             IN /\ active_ports'[p] = {} =>
                      /\ Len(children') = Len(children)
                      /\ Returns(t) => ~LiveOn(processes', children', p)
                /\ active_ports'[p] # {} =>
                      /\ req'[t].res # "internal_error"
                      /\ Len(children') > Len(children) =>
                            /\ children'[c].port = p
                            /\ entries \subseteq active_ports'[p]
                            /\ active_ports'[p] \cap Unprobed(p, store') \subseteq entries]_vars

\* a stop or delete_flow that left members on the port has raised in the
\* restart
C26_RestartRaised ==
    \E t \in Tasks :
       /\ req[t].pc = "done" /\ req[t].kind \in {"stop", "delete"}
       /\ req[t].res = "internal_error"
       /\ active_ports[openapi_port] # {}
       /\ req[t].fid \notin active_ports[openapi_port]

\* following the source URLs from flow for n hops never leaves the store
RECURSIVE Hops(_, _, _)
Hops(flow, n, st) ==
    IF n = 0 THEN TRUE
    ELSE LET dependency == ResolveDependency(flow, st)
         IN dependency # <<>> /\ Hops(dependency[1], n - 1, st)

\* the source URLs lead from flow into a dependency cycle: more hops than
\* the store has records
OnCycle(flow, st) == Hops(flow, Len(st) + 1, st)

\* no flow is twice in the chain
Once(chain) == \A i, j \in DOMAIN chain : chain[i].id = chain[j].id => i = j

\* the handler of task t enters start(F) in this step
StartEnters(t) ==
    /\ Steps(t)
    /\ req[t].pc \in {"idle", "lock"}
    /\ req'[t].kind = "start"
    /\ req'[t].pc \notin {"idle", "lock"}
    /\ req'[t].res # "not_found"

\* the record start(F) was called with: read when the request arrived
Starting(t) ==
    IF req[t].pc = "lock" THEN req[t].flow[1] ELSE StoreGet(store, req'[t].fid)[1]

\* C27: in a store where the source URLs form a dependency cycle (a flow
\* whose URL resolves to itself included) start(F) resolves a finite chain
\* that holds each flow at most once and ends with F, raises nothing on the
\* way, and activates the flows of the chain one after the other, each once
CycleIsCut ==
    [][\A t \in Tasks :
          /\ (StartEnters(t) /\ OnCycle(Starting(t), store)) =>
                LET chain == StartWithDependencies(Starting(t), {}, store)
                IN /\ Once(chain)
                   /\ Len(chain) <= Len(store) + 1
                   /\ chain[Len(chain)].id = req'[t].fid
          /\ (Steps(t) /\ req'[t].kind = "start"
                /\ req'[t].pc \notin {"idle", "lock", "done"}) =>
                /\ Once(ChainAt(t))
                /\ \E k \in 0..Len(ChainAt(t)) :
                      req'[t].chain = SubSeq(ChainAt(t), k + 1, Len(ChainAt(t)))]_vars

\* start(A) has returned running in a store where A and B name each other as
\* upstream, and both are attached
C27_CycleStarted ==
    \E t \in Tasks :
       /\ req[t].pc = "done" /\ req[t].kind = "start" /\ req[t].res = "running"
       /\ StoreGet(store, "A") # <<>> /\ StoreGet(store, "B") # <<>>
       /\ ResolveDependency(StoreGet(store, "A")[1], store) = StoreGet(store, "B")
       /\ ResolveDependency(StoreGet(store, "B")[1], store) = StoreGet(store, "A")
       /\ Members("A") # {} /\ Members("B") # {}

\* the handler of task t is inside "async with self.lock"
InSection(t) == req[t].pc \notin {"idle", "lock", "done"}

\* task t holds the mutex during this step: it held it before, or it found
\* it free and took it
Holds(t) ==
    /\ Steps(t)
    /\ \/ lock # <<>> /\ Head(lock) = t
       \/ lock = <<>> /\ req[t].pc = "idle"

\* C28: every change of a member set or of the child table, and every
\* terminate and spawn of a gateway child, is a step of a handler that holds
\* the supervisor mutex, and no two start / stop / delete handlers are inside
\* their port-mutating section at the same time
MutationsHoldMutex ==
    [][/\ (\/ active_ports' # active_ports
           \/ processes' # processes
           \/ Len(children') > Len(children)) => \E t \in Tasks : Holds(t)
       /\ \A t, u \in Tasks :
             /\ (InSection(t) /\ InSection(u)) => t = u
             /\ InSection(t) => Head(lock) = t
             /\ (InSection(t)' /\ InSection(u)') => t = u
             /\ InSection(t)' => Head(lock') = t]_vars

\* one handler waits for its child to exit while another waits for the mutex
C28_OneInsideOneWaiting ==
    \E t, u \in Tasks :
       /\ req[t].pc = "term_wait"
       /\ req[u].pc = "lock"
       /\ lock = <<t, u>>

\* the log pump of an exited gateway child or helper takes a step
PumpActs ==
    \/ \E c \in DOMAIN children :
          children'[c].pump # children[c].pump \/ children'[c].hq # children[c].hq
    \/ \E h \in DOMAIN helpers :
          helpers'[h].pump # helpers[h].pump \/ helpers'[h].hq # helpers[h].hq

\* helper h is alive and the config of a running gateway child uses its URL
Serving(h) ==
    /\ helpers[h].alive
    /\ \E p \in Ports :
          /\ LiveOn(processes, children, p)
          /\ \E e \in children[processes[p]].cfg : e.url = HelperUrl(h)

\* C29: the log pump of an exited process never stops or unregisters a
\* helper spawned after that process exited: a helper that serves a running
\* gateway is left alive and registered by the late end of stream of an
\* earlier child or helper
LatePumpSparesHelpers ==
    [][PumpActs =>
          \A h \in DOMAIN helpers :
             (Serving(h) /\ openapi_helpers[helpers[h].fid] = h) =>
                /\ helpers'[h].alive
                /\ openapi_helpers'[helpers[h].fid] = h]_vars

\* the pump of the first child of a port, terminated before the second was
\* spawned, has killed the second helper of the flow, which the running
\* second child uses
C29_NewHelperKilled ==
    /\ Len(children) >= 2 /\ Len(helpers) >= 2
    /\ children[1].pump = "stop_wait" /\ children[1].hw = 2
    /\ ~helpers[2].alive
    /\ ~helpers[1].alive /\ helpers[1].fid = helpers[2].fid
    /\ IsRunning(children, 2)
    /\ \E e \in children[2].cfg : e.url = HelperUrl(2)

\* POST /api/flows for an id that is not in the store
CreateFresh(id, payload) ==
    /\ StoreGet(store, id) = <<>>
    /\ CreateFlow(id, payload)

\* the supervisor with start_flow and delete_flow requests only: records are
\* created, never rewritten
NextStartDelete ==
    \/ \E id \in FlowIds, payload \in Payloads : CreateFresh(id, payload)
    \/ \E t \in Tasks, fid \in FlowIds : StartFlow(t, fid)
    \/ \E t \in Tasks, fid \in FlowIds : DeleteFlow(t, fid)
    \/ \E t \in Tasks : Retire(t)
    \/ \E t \in Tasks : LockGranted(t)
    \/ \E t \in Tasks : TermWait(t)
    \/ \E t \in Tasks : StopWait(t)
    \/ \E t \in Tasks : Ensure(t)
    \/ \E t \in Tasks : EnsureWait(t)
    \/ \E t \in Tasks : Probe(t)
    \/ \E t \in Tasks : Spawn(t)
    \/ \E c \in DOMAIN children : ChildExit(c)
    \/ \E h \in DOMAIN helpers : HelperExit(h)
    \/ \E c \in DOMAIN children : PumpEOF(c)
    \/ \E c \in DOMAIN children : PumpStopWait(c)
    \/ \E h \in DOMAIN helpers : HelperPumpEOF(h)
    \/ \E h \in DOMAIN helpers : HelperPumpStopWait(h)

SpecStartDelete == Init /\ [][NextStartDelete]_vars

CrashedUnder(fid) ==
    /\ StoreGet(store, fid) # <<>>
    /\ fid \in active_ports[PortForFlow(StoreGet(store, fid)[1])]
    /\ ExitedOn(PortForFlow(StoreGet(store, fid)[1]), fid)
    /\ ~StateRunning(processes, children, fid)

\* C31: when the gateway child of a port has exited by itself while flow F is
\* attached to the port, a start(F) that returns without error has respawned
\* the gateway, and F is reported running
StartRespawnsAfterExit ==
    \A t \in Tasks, fid \in FlowIds :
       (NoRequest /\ lock = <<>> /\ CrashedUnder(fid)) =>
          LET m == CallNow(t, "start", fid)
          IN (m.r.pc = "done" /\ Accepted(m.r.res)) => m.r.res = "running"

\* start(F) has returned not running: F is attached and the child of its
\* port, which exited by itself, is still the entry of the port
C31_NotRespawned ==
    \E t \in Tasks :
       /\ req[t].pc = "done" /\ req[t].kind = "start" /\ req[t].res = "not_running"
       /\ CrashedUnder(req[t].fid)
       /\ Len(children) = 1

\* ---------------------------------------------------------------------------
\* test_flow: the preview of a flow, outside the supervisor mutex
\* ---------------------------------------------------------------------------

\* the handler of test_flow is at pc, with res as its answer
Testing(fid, pc, res, h) ==
    [Idle EXCEPT !.kind = "test", !.fid = fid, !.pc = pc, !.res = res, !.helper = h]

\* POST /api/flows/{id}/test: store.get, then _build_command up to its first
\* await: the helper of an openapi source, or the --version check
TestFlow(t, fid) ==
    /\ Received(t)
    /\ LET found == StoreGet(store, fid)
           flow == found[1]
       IN req' = [req EXCEPT ![t] =
                    IF found = <<>> THEN Testing(fid, "done", "not_found", 0)
                    ELSE IF flow.source_type \notin {"stdio", "openapi"}
                            /\ flow.sse_url = NoUrl
                    THEN Testing(fid, "done", "url_required", 0)
                    ELSE IF NeedsHelper(flow) THEN Testing(fid, "test_ensure", "", 0)
                    ELSE Testing(fid, "test_version", "", 0)]
    /\ UNCHANGED <<store, active_ports, port_order, processes, children,
                   openapi_helpers, helpers, lock>>
    /\ UNCHANGED Events
    /\ UNCHANGED inspector

\* _ensure_openapi_helper called by _build_command: the registered helper
\* answers, or a new one is spawned and registered, or npx is missing
TestEnsure(t) ==
    /\ Calm
    /\ req[t].pc = "test_ensure"
    /\ LET fid == req[t].fid
           h == Len(helpers) + 1
       IN \/ /\ HelperRunning(fid)
             /\ req' = [req EXCEPT ![t] = Testing(fid, "test_version", "", 0)]
             /\ UNCHANGED <<helpers, openapi_helpers>>
          \/ /\ Len(helpers) < MaxHelpers
             /\ helpers' = Append(helpers, NewHelper(fid))
             /\ openapi_helpers' = [openapi_helpers EXCEPT ![fid] = h]
             /\ req' = [req EXCEPT ![t] = Testing(fid, "test_wait", "", h)]
          \/ /\ req' = [req EXCEPT ![t] = Testing(fid, "done", "npx_missing", 0)]
             /\ UNCHANGED <<helpers, openapi_helpers>>
    /\ UNCHANGED <<store, active_ports, port_order, processes, children, lock, budget>>
    /\ UNCHANGED Events
    /\ UNCHANGED inspector

\* the port of the helper spawned for the preview opens in time, or not
TestEnsureWait(t) ==
    /\ Calm
    /\ req[t].pc = "test_wait"
    /\ \/ /\ helpers[req[t].helper].alive
          /\ req' = [req EXCEPT ![t] = Testing(req[t].fid, "test_version", "", 0)]
       \/ req' = [req EXCEPT ![t] = Testing(req[t].fid, "done", "readiness_timeout", 0)]
    /\ UNCHANGED <<store, active_ports, port_order, processes, children,
                   openapi_helpers, helpers, lock, budget>>
    /\ UNCHANGED Events
    /\ UNCHANGED inspector

\* ProcessManager.test after _build_command: the gateway binary answers
\* --version, or is missing
TestVersion(t) ==
    /\ Calm
    /\ req[t].pc = "test_version"
    /\ \E res \in {"ok", "binary_missing"} :
          req' = [req EXCEPT ![t] = Testing(req[t].fid, "done", res, 0)]
    /\ UNCHANGED <<store, active_ports, port_order, processes, children,
                   openapi_helpers, helpers, lock, budget>>
    /\ UNCHANGED Events
    /\ UNCHANGED inspector

\* the supervisor with test_flow requests next to start_flow requests and the
\* exits of children and helpers; the log pumps are left to SpecPump
NextTest ==
    \/ \E id \in FlowIds, payload \in Payloads : CreateFresh(id, payload)
    \/ \E t \in Tasks, fid \in FlowIds : TestFlow(t, fid)
    \/ \E t \in Tasks : TestEnsure(t)
    \/ \E t \in Tasks : TestEnsureWait(t)
    \/ \E t \in Tasks : TestVersion(t)
    \/ \E t \in Tasks, fid \in FlowIds : StartFlow(t, fid)
    \/ \E t \in Tasks : Retire(t)
    \/ \E t \in Tasks : LockGranted(t)
    \/ \E t \in Tasks : TermWait(t)
    \/ \E t \in Tasks : Ensure(t)
    \/ \E t \in Tasks : EnsureWait(t)
    \/ \E t \in Tasks : Probe(t)
    \/ \E t \in Tasks : Spawn(t)
    \/ \E c \in DOMAIN children : ChildExit(c)
    \/ \E h \in DOMAIN helpers : HelperExit(h)

SpecTest == Init /\ [][NextTest]_vars

\* the handler of task t takes a step of a test_flow
TestSteps(t) ==
    /\ Steps(t)
    /\ (IF req[t].pc = "idle" THEN req'[t].kind ELSE req[t].kind) = "test"

\* C32: test_flow changes no supervisor state: the member sets, the child
\* table and the helper registry are after each of its steps what they were
\* before, and it spawns neither a gateway child nor a helper, whatever the
\* source type of the flow
TestChangesNothing ==
    [][\A t \in Tasks :
          TestSteps(t) =>
             /\ active_ports' = active_ports
             /\ processes' = processes
             /\ openapi_helpers' = openapi_helpers
             /\ Len(children') = Len(children)
             /\ Len(helpers') = Len(helpers)]_vars

\* test_flow of an openapi flow that was never started has answered ok and
\* left a running helper registered for the flow
C32_HelperLeftByTest ==
    \E t \in Tasks :
       /\ req[t].pc = "done" /\ req[t].kind = "test" /\ req[t].res = "ok"
       /\ HelperRunning(req[t].fid)
       /\ Members(req[t].fid) = {}
       /\ children = <<>>

----------------------------------------------------------------------------
(* create_flow / update_flow on whole records.  The specification above keeps
   of a record what the manager reads; SpecStore keeps the fields that
   create_flow and update_flow read, check or derive, and leaves the manager
   as it is after construction. *)

None == "None"
Transport == {"sse", "streamablehttp"}
RecordIds == {"A"}

\* PreviousConfig()
PreviousConfig ==
    [sse_url |-> None, transport |-> None, command |-> None, server_transport |-> None]

\* FlowCreate / FlowUpdate bodies: name is required, route is left out, every
\* other field is given or has the default of FlowBase
FlowPayloads ==
    [name : {"n"}, route : {None},
     source_type : EndpointType, target_type : EndpointType,
     sse_url : {None, "http://up/sse"},
     openapi_base_url : {None, "http://api"},
     openapi_spec_url : {None, "http://api/openapi.json"},
     command : {None, "cmd"},
     transport : Transport, server_transport : Transport]

PayloadFields ==
    {"name", "route", "source_type", "target_type", "sse_url", "openapi_base_url",
     "openapi_spec_url", "command", "transport", "server_transport"}

\* time.time(): the clock ticks once per write
Now == budget.writes + 1

\* payload["transport"] / data["transport"]
DerivedTransport(source_type) ==
    IF source_type \in {"streamable_http", "openapi"} THEN "streamablehttp" ELSE "sse"

\* payload["server_transport"] / data["server_transport"]
Exposed(source_type, target_type) ==
    IF \/ target_type = "streamable_http"
       \/ (target_type = "stdio" /\ source_type = "streamable_http")
    THEN "streamablehttp" ELSE "sse"

\* x or y, for values where None is the only falsy one
Or(x, y) == IF x # None THEN x ELSE y

\* the one check of create_flow and update_flow
OpenApiMismatch(data) ==
    data.source_type = "openapi" /\ data.target_type # "streamable_http"

\* Flow(**payload, id=flow_id, created_at=now, updated_at=now)
new_flow(id, flow, now) ==
    [id |-> id, name |-> flow.name, route |-> Or(flow.route, flow.name),
     source_type |-> flow.source_type, target_type |-> flow.target_type,
     sse_url |-> flow.sse_url, openapi_base_url |-> flow.openapi_base_url,
     openapi_spec_url |-> flow.openapi_spec_url, command |-> flow.command,
     transport |-> DerivedTransport(flow.source_type),
     server_transport |-> Exposed(flow.source_type, flow.target_type),
     previous |-> PreviousConfig, created_at |-> now, updated_at |-> now]

\* data = existing.model_dump(); data.update({k: v ... if v is not None})
Merged(existing, payload) ==
    [k \in DOMAIN existing |->
        IF k \in PayloadFields /\ payload[k] # None THEN payload[k] ELSE existing[k]]

\* "Capture previous config when fields change"
Captured(existing, payload) ==
    LET prev == existing.previous
        p1 == IF \/ existing.sse_url # payload.sse_url
                 \/ existing.transport # payload.transport
              THEN [prev EXCEPT !.sse_url = existing.sse_url,
                                !.transport = existing.transport]
              ELSE prev
    IN IF \/ existing.command # payload.command
          \/ existing.server_transport # payload.server_transport
       THEN [p1 EXCEPT !.command = existing.command,
                       !.server_transport = existing.server_transport]
       ELSE p1

\* Flow(**data) of update_flow
updated_flow(existing, payload, now) ==
    LET data == Merged(existing, payload)
    IN [data EXCEPT !.route = Or(Or(data.route, data.name), data.name),
                    !.previous = Captured(existing, payload),
                    !.transport = DerivedTransport(data.source_type),
                    !.server_transport = Exposed(data.source_type, data.target_type),
                    !.updated_at = now]

Manager == <<active_ports, port_order, processes, children, openapi_helpers,
             helpers, lock, req>>

create_flow(id, flow) ==
    /\ budget.writes < MaxWrites
    /\ budget' = [budget EXCEPT !.writes = @ + 1]
    /\ store' = IF OpenApiMismatch(flow) THEN store
                ELSE StoreUpsert(store, new_flow(id, flow, Now))
    /\ UNCHANGED Manager
    /\ UNCHANGED Events
    /\ UNCHANGED inspector

update_flow(id, payload) ==
    /\ budget.writes < MaxWrites
    /\ budget' = [budget EXCEPT !.writes = @ + 1]
    /\ store' = IF StoreGet(store, id) = <<>> THEN store
                ELSE IF OpenApiMismatch(Merged(StoreGet(store, id)[1], payload))
                THEN store
                ELSE StoreUpsert(store, updated_flow(StoreGet(store, id)[1], payload, Now))
    /\ UNCHANGED Manager
    /\ UNCHANGED Events
    /\ UNCHANGED inspector

NextStore ==
    \/ \E id \in RecordIds, flow \in FlowPayloads : create_flow(id, flow)
    \/ \E id \in RecordIds, payload \in FlowPayloads : update_flow(id, payload)

SpecStore == Init /\ [][NextStore]_vars

\* empty: absent
Empty(v) == v = None

\* the write-time invariants a record must satisfy
Violates(f) ==
    \/ f.source_type = "openapi" /\ f.target_type # "streamable_http"
    \/ (f.source_type = "stdio" \/ f.target_type = "stdio") /\ Empty(f.command)
    \/ f.source_type \in {"sse", "streamable_http"} /\ Empty(f.sse_url)
    \/ f.source_type = "openapi"
          /\ (Empty(f.openapi_base_url) \/ Empty(f.openapi_spec_url))

\* C14: create_flow and update_flow reject every record that violates a
\* write-time invariant and leave the store as it is: no write puts a
\* violating record into the store
WritesAreValid ==
    [][\A i \in DOMAIN store' :
          (i \notin DOMAIN store \/ store'[i] # store[i]) => ~Violates(store'[i])]_vars

\* the store holds a stdio record without a command
C14_StoredWithoutCommand ==
    \E i \in DOMAIN store : store[i].source_type = "stdio" /\ Empty(store[i].command)

\* C15: for every x that create accepts (x satisfying the write-time
\* invariants included), update(id, x) on the record that
\* create(x) stored gives that record again, previous snapshot and derived
\* transports included, but for updated_at
CreateThenUpdateIsSame ==
    \A i \in DOMAIN store, x \in FlowPayloads :
       (/\ ~OpenApiMismatch(x) /\ ~Violates(x)
        /\ store[i] = new_flow(store[i].id, x, store[i].created_at)) =>
          /\ ~OpenApiMismatch(Merged(store[i], x))
          /\ [updated_flow(store[i], x, Now) EXCEPT !.updated_at = store[i].updated_at]
                = store[i]

\* the record create stored has been updated with the values it was created
\* from and holds a previous snapshot
C15_SnapshotOfNothing ==
    \E i \in DOMAIN store, x \in FlowPayloads :
       /\ ~Violates(x)
       /\ store[i].previous # PreviousConfig
       /\ store[i] = updated_flow(new_flow(store[i].id, x, store[i].created_at), x,
                                  store[i].updated_at)

----------------------------------------------------------------------------
(* EventBroadcaster and the /api/events streams.  SpecEvents leaves the store
   and the manager as they are after construction; payloads are told apart
   by the number of the broadcast call that carried them. *)

\* asyncio.Queue(maxsize=100)
maxsize == 100

Supervisor == <<store, active_ports, port_order, processes, children,
                openapi_helpers, helpers, lock, req, budget>>

\* a queue that never reports QueueFull
NeverFull(queue) == FALSE

\* put_nowait raises QueueFull
QueueFull(queue) == Len(queue) >= maxsize

\* a queue that hands out the newest event first
put_first(queue, payload) == <<payload>> \o queue

\* queue.put_nowait(payload)
put_nowait(queue, payload) == Append(queue, payload)

\* broadcast: the loop over list(self.listeners), then self.listeners = alive
RECURSIVE broadcast(_, _, _, _)
broadcast(todo, alive, qs, payload) ==
    IF todo = <<>> THEN [listeners |-> alive, queues |-> qs]
    ELSE LET queue == Head(todo)
         IN IF QueueFull(qs[queue])
            THEN broadcast(Tail(todo), alive, qs, payload)
            ELSE broadcast(Tail(todo), Append(alive, queue),
                           [qs EXCEPT ![queue] = put_nowait(@, payload)], payload)

\* the payload of the next broadcast call
Payload(type, child) == [type |-> type, child |-> child, seq |-> Len(sent) + 1]

\* await self.broadcaster.broadcast(payload): it has no suspension point
Broadcast(payload) ==
    LET b == broadcast(listeners, <<>>, queues, payload)
    IN /\ listeners' = b.listeners
       /\ queues' = b.queues
       /\ sent' = Append(sent, payload)

\* GET /api/events: broadcaster.register()
Register(q) ==
    /\ streams[q].pc = "none"
    /\ \A u \in Queues : u < q => streams[u].pc # "none"
    /\ Len(sent) <= MaxLate
    /\ listeners' = Append(listeners, q)
    /\ queues' = [queues EXCEPT ![q] = <<>>]
    /\ streams' = [streams EXCEPT ![q] = [pc |-> "open", since |-> Len(sent),
                                          got |-> <<>>]]
    /\ UNCHANGED sent
    /\ UNCHANGED Supervisor
    /\ UNCHANGED inspector

\* event_stream: event = await queue.get(); yield
Get(q) ==
    /\ streams[q].pc = "open"
    /\ queues[q] # <<>>
    /\ Len(streams[q].got) < MaxGets
    /\ streams' = [streams EXCEPT ![q].got = Append(@, Head(queues[q]))]
    /\ queues' = [queues EXCEPT ![q] = Tail(@)]
    /\ UNCHANGED <<listeners, sent>>
    /\ UNCHANGED Supervisor
    /\ UNCHANGED inspector

\* a stream that has ended: nothing refers to its queue any more
Closed == [pc |-> "closed", since |-> 0, got |-> <<>>]

\* event_stream is cancelled (the client has gone): broadcaster.unregister(queue)
Cancel(q) ==
    /\ streams[q].pc = "open"
    /\ streams' = [streams EXCEPT ![q] = Closed]
    /\ listeners' = SelectSeq(listeners, LAMBDA u : u # q)
    /\ queues' = [queues EXCEPT ![q] = <<>>]
    /\ UNCHANGED sent
    /\ UNCHANGED Supervisor
    /\ UNCHANGED inspector

\* a log pump broadcasts a line
Emit ==
    /\ Len(sent) < MaxBroadcasts
    /\ Broadcast(Payload("log", 0))
    /\ UNCHANGED streams
    /\ UNCHANGED Supervisor
    /\ UNCHANGED inspector

NextEvents ==
    \/ \E q \in Queues : Register(q)
    \/ \E q \in Queues : Get(q)
    \/ \E q \in Queues : Cancel(q)
    \/ Emit

SpecEvents == Init /\ [][NextEvents]_vars

Registered(q) == q \in Range(listeners)

\* C16: a queue never holds more than 100 events and broadcast is never
\* held up; a broadcast that finds a registered queue full removes it from
\* the registry, puts its payload into every other registered queue and keeps
\* those registered, and nothing is put into a queue that is not registered
FullQueueIsDropped ==
    [][/\ \A q \in Queues : Len(queues'[q]) <= maxsize
       /\ Len(sent) < MaxBroadcasts => ENABLED Emit
       /\ sent' # sent =>
             \A q \in Queues :
                IF Registered(q) /\ Len(queues[q]) < maxsize
                THEN /\ q \in Range(listeners')
                     /\ queues'[q] = Append(queues[q], sent'[Len(sent')])
                ELSE /\ q \notin Range(listeners')
                     /\ queues'[q] = queues[q]]_vars

\* a broadcast has dropped one stream for its full queue and another stream
\* is still registered and has got that payload
C16_DroppedAndServed ==
    \E q, u \in Queues :
       /\ streams[q].pc = "open" /\ ~Registered(q) /\ Len(queues[q]) = maxsize
       /\ Registered(u) /\ queues[u] # <<>>
       /\ queues[u][Len(queues[u])].seq > queues[q][maxsize].seq

\* C17: while a stream is registered, what it has taken from its queue and
\* what is still in the queue are together the payloads broadcast since it
\* registered, each once, in the order of the broadcast calls
OrderedDelivery ==
    \A q \in Queues :
       Registered(q) =>
          streams[q].got \o queues[q] = SubSeq(sent, streams[q].since + 1, Len(sent))

\* a registered stream that opened after the first broadcast has taken two
\* events and has more in its queue
C17_TakenInOrder ==
    \E q \in Queues :
       /\ Registered(q) /\ streams[q].since > 0
       /\ Len(streams[q].got) = MaxGets /\ Len(queues[q]) > 1

----------------------------------------------------------------------------
(* The events of a port's child.  SpecPump keeps of _restart_port its last
   statements, where the child is registered, its pump is created and
   flow_started is broadcast, and of the pump its broadcasts. *)

Rest == <<store, active_ports, port_order, openapi_helpers, helpers, lock, req, budget>>

Lines == SelectSeq(sent, LAMBDA e : e.type = "log")

\* a faulty end of _restart_port: the pump created just before gets to run,
\* and to broadcast a line, before flow_started is broadcast
AnnounceLater(c) ==
    LET line == broadcast(listeners, <<>>, queues, Payload("log", c))
        started == [type |-> "flow_started", child |-> c, seq |-> Len(sent) + 2]
        b == broadcast(line.listeners, <<>>, line.queues, started)
    IN /\ listeners' = b.listeners
       /\ queues' = b.queues
       /\ sent' = sent \o <<Payload("log", c), started>>

\* await self.broadcaster.broadcast({"type": "flow_started", ...}): the pump
\* task created just before has not run yet, broadcast does not suspend
Announce(c) == Broadcast(Payload("flow_started", c))

\* _restart_port from the return of create_subprocess_exec on: ProcessInfo,
\* self.processes[port] = info, create_task(_pipe_logs), broadcast
PortStarted(p) ==
    /\ processes[p] = 0
    /\ Len(children) < MaxChildren
    /\ children' = Append(children, NewChild(p, {}, {}))
    /\ processes' = [processes EXCEPT ![p] = Len(children) + 1]
    /\ Announce(Len(children) + 1)
    /\ UNCHANGED streams
    /\ UNCHANGED Rest
    /\ UNCHANGED inspector

\* _terminate_port: the child has exited and the port has no entry
PortTerminated(p) ==
    /\ processes[p] # 0
    /\ children' = [children EXCEPT ![processes[p]].returncode = "exit",
                                    ![processes[p]].exit_code = "exit"]
    /\ processes' = [processes EXCEPT ![p] = 0]
    /\ UNCHANGED Events
    /\ UNCHANGED Rest
    /\ UNCHANGED inspector

\* _pipe_logs: readline has returned a line
PumpLine(c) ==
    /\ c \in DOMAIN children
    /\ children[c].pump = "reading"
    /\ Len(Lines) < MaxLines
    /\ Broadcast(Payload("log", c))
    /\ UNCHANGED <<streams, children, processes>>
    /\ UNCHANGED Rest
    /\ UNCHANGED inspector

\* _pipe_logs: end of the stream, flow_exited
PumpEnd(c) ==
    /\ c \in DOMAIN children
    /\ children[c].pump = "reading"
    /\ ~IsRunning(children, c)
    /\ Broadcast(Payload("flow_exited", c))
    /\ children' = [children EXCEPT ![c].pump = "done"]
    /\ UNCHANGED <<streams, processes>>
    /\ UNCHANGED Rest
    /\ UNCHANGED inspector

NextPump ==
    \/ \E q \in Queues : Register(q)
    \/ \E q \in Queues : Get(q)
    \/ \E q \in Queues : Cancel(q)
    \/ \E p \in {sse_port} : PortStarted(p)
    \/ \E p \in {sse_port} : PortTerminated(p)
    \/ \E c \in 1..MaxChildren : PumpLine(c)
    \/ \E c \in 1..MaxChildren : PumpEnd(c)

SpecPump == Init /\ [][NextPump]_vars

\* what stream q has been handed so far: taken, or still in its queue
Seen(q) == streams[q].got \o queues[q]

\* stream q was registered when child c was announced
RegisteredAcross(q, c) ==
    \E k \in DOMAIN sent :
       /\ k > streams[q].since
       /\ sent[k].type = "flow_started" /\ sent[k].child = c

\* C18: a stream that was registered when a port's new child was started is
\* handed the child's flow_started before any log line of that child
StartedBeforeLogs ==
    \A q \in Queues :
       \A j \in DOMAIN Seen(q) :
          (Seen(q)[j].type = "log" /\ RegisteredAcross(q, Seen(q)[j].child)) =>
             \E i \in 1..(j - 1) :
                /\ Seen(q)[i].type = "flow_started"
                /\ Seen(q)[i].child = Seen(q)[j].child

\* a stream registered before a restart has taken the second child's
\* flow_started and has a log line of that child in its queue
C18_RestartSeen ==
    \E q \in Queues :
       /\ Len(streams[q].got) > 0
       /\ streams[q].got[Len(streams[q].got)] = [type |-> "flow_started", child |-> 2,
                                                  seq |-> streams[q].got[Len(streams[q].got)].seq]
       /\ \E j \in DOMAIN queues[q] :
             queues[q][j].type = "log" /\ queues[q][j].child = 2

\* where in sent the events of this type for child c are
EventsOf(type, c) == {k \in DOMAIN sent : sent[k].type = type /\ sent[k].child = c}

\* _terminate_port has completed for child c: it has exited and its port has
\* dropped it
Terminated(c) == ~IsRunning(children, c) /\ processes[children[c].port] # c

\* C25: when the running child of a port is terminated, exactly one
\* flow_exited for that child is broadcast, before the terminate completes and
\* so before the flow_started of the next child of the port
ExitedBeforeNextStart ==
    \A c \in DOMAIN children :
       /\ Cardinality(EventsOf("flow_exited", c)) <= 1
       /\ Terminated(c) => Cardinality(EventsOf("flow_exited", c)) = 1
       /\ \A d \in DOMAIN children :
             (d > c /\ children[d].port = children[c].port) =>
                \A k \in EventsOf("flow_started", d) :
                   \E j \in EventsOf("flow_exited", c) : j < k

\* the flow_exited of a terminated child is broadcast after the flow_started
\* of the next child of the port
C25_ExitedAfterNextStart ==
    \E j \in EventsOf("flow_exited", 1), k \in EventsOf("flow_started", 2) :
       /\ k < j
       /\ children[1].port = children[2].port

----------------------------------------------------------------------------
(* _terminate_port, signal by signal.  SpecTerm starts where a handler that
   holds the manager lock calls _terminate_port on a port whose child serves
   flow A; the child and the helper of A may ignore SIGTERM.  Time is counted
   in seconds from the call. *)

\* asyncio.wait_for(..., timeout=5)
timeout == 5

\* a child or helper process of SpecTerm: the signals sent to it, with the
\* second each was sent at
Proc(port, ids, stubborn) ==
    [port |-> port, flow_ids |-> ids, returncode |-> "none", exit_code |-> "none",
     signals |-> <<>>, stubborn |-> stubborn]

\* the coroutine that runs _terminate_port
TermTask(pc, port) == [pc |-> pc, port |-> port, hq |-> <<>>, clock |-> 0, deadline |-> 0]

InitTerm ==
    /\ store = <<>>
    /\ active_ports = [p \in Ports |-> {}]
    /\ port_order = <<stream_port>>
    /\ \E stubborn \in BOOLEAN : children = <<Proc(stream_port, {"A"}, stubborn)>>
    /\ processes = [p \in Ports |-> IF p = stream_port THEN 1 ELSE 0]
    /\ \E h \in {0, 1}, stubborn \in BOOLEAN :
          /\ helpers = IF h = 0 THEN <<>> ELSE <<Proc(0, {"A"}, stubborn)>>
          /\ openapi_helpers = [f \in FlowIds |-> IF f = "A" THEN h ELSE 0]
    /\ lock = <<1>>
    /\ req = [t \in Tasks |-> IF t = 1 THEN TermTask("call", stream_port)
                               ELSE TermTask("idle", 0)]
    /\ budget = [requests |-> 1, writes |-> 0]
    /\ listeners = <<>>
    /\ queues = [q \in Queues |-> <<>>]
    /\ streams = [q \in Queues |-> NoStream]
    /\ sent = <<>>
    /\ inspector = NoInspector

Untimed == <<store, active_ports, port_order, lock, budget>>

\* process.terminate() / process.kill() / os.killpg at second clock
Signal(procs, c, sig, clock) ==
    [procs EXCEPT ![c].signals = Append(@, [sig |-> sig, at |-> clock])]

HasSignal(proc, sig) == \E i \in DOMAIN proc.signals : proc.signals[i].sig = sig

\* a wait_for that gives up at once
ExpiredAtOnce(r) == TRUE

\* asyncio.wait_for raises TimeoutError
Expired(r) == r.clock >= r.deadline

\* _terminate_port, lines 511-513, or 524-525 when no child is running
terminate_port(t) ==
    /\ req[t].pc = "call"
    /\ LET r == req[t]
           c == processes[r.port]
       IN IF c # 0 /\ IsRunning(children, c)
          THEN /\ children' = Signal(children, c, "SIGTERM", r.clock)
               /\ req' = [req EXCEPT ![t].pc = "wait_term",
                                      ![t].deadline = r.clock + timeout]
               /\ UNCHANGED processes
          ELSE /\ processes' = [processes EXCEPT ![r.port] = 0]
               /\ req' = [req EXCEPT ![t].pc = "returned"]
               /\ UNCHANGED children
    /\ UNCHANGED <<helpers, openapi_helpers>>
    /\ UNCHANGED Untimed
    /\ UNCHANGED Events
    /\ UNCHANGED inspector

\* a second passes while a wait_for is pending
Tick(t) ==
    /\ req[t].pc \in {"wait_term", "helper_wait_pg", "helper_wait_term"}
    /\ req[t].clock < req[t].deadline
    /\ req' = [req EXCEPT ![t].clock = @ + 1]
    /\ UNCHANGED <<children, processes, helpers, openapi_helpers>>
    /\ UNCHANGED Untimed
    /\ UNCHANGED Events
    /\ UNCHANGED inspector

\* lines 514, 517 and 519: wait() has returned, in time or after the kill
TermWaited(t) ==
    /\ req[t].pc \in {"wait_term", "wait_kill"}
    /\ LET c == processes[req[t].port]
       IN /\ ~IsRunning(children, c)
          /\ children' = [children EXCEPT ![c].exit_code = children[c].returncode]
          /\ req' = [req EXCEPT ![t].pc = "stop_helpers",
                                 ![t].hq = SetToSeq(children[c].flow_ids)]
    /\ UNCHANGED <<processes, helpers, openapi_helpers>>
    /\ UNCHANGED Untimed
    /\ UNCHANGED Events
    /\ UNCHANGED inspector

\* lines 515-517: TimeoutError, kill(), wait()
TermTimedOut(t) ==
    /\ req[t].pc = "wait_term"
    /\ Expired(req[t])
    /\ IsRunning(children, processes[req[t].port])
    /\ children' = Signal(children, processes[req[t].port], "SIGKILL", req[t].clock)
    /\ req' = [req EXCEPT ![t].pc = "wait_kill"]
    /\ UNCHANGED <<processes, helpers, openapi_helpers>>
    /\ UNCHANGED Untimed
    /\ UNCHANGED Events
    /\ UNCHANGED inspector

\* lines 521-525: _stop_openapi_helper for the next flow id (up to its first
\* wait), or the del of the entry when none is left
StopHelper(t) ==
    /\ req[t].pc = "stop_helpers"
    /\ LET r == req[t]
           h == IF r.hq = <<>> THEN 0 ELSE openapi_helpers[Head(r.hq)]
       IN IF r.hq = <<>>
          THEN /\ processes' = [processes EXCEPT ![r.port] = 0]
               /\ req' = [req EXCEPT ![t].pc = "returned"]
               /\ UNCHANGED <<helpers, openapi_helpers>>
          ELSE IF h = 0
          THEN /\ req' = [req EXCEPT ![t].hq = Tail(@)]
               /\ UNCHANGED <<processes, helpers, openapi_helpers>>
          ELSE IF ~IsRunning(helpers, h)
          THEN /\ openapi_helpers' = [openapi_helpers EXCEPT ![Head(r.hq)] = 0]
               /\ req' = [req EXCEPT ![t].hq = Tail(@)]
               /\ UNCHANGED <<processes, helpers>>
          ELSE /\ helpers' = Signal(helpers, h, "SIGTERM", r.clock)
               /\ req' = [req EXCEPT ![t].pc = "helper_wait_pg",
                                      ![t].deadline = r.clock + timeout]
               /\ UNCHANGED <<processes, openapi_helpers>>
    /\ UNCHANGED children
    /\ UNCHANGED Untimed
    /\ UNCHANGED Events
    /\ UNCHANGED inspector

\* _stop_openapi_helper: a wait() has returned; pop the registry entry
HelperWaited(t) ==
    /\ req[t].pc \in {"helper_wait_pg", "helper_wait_term", "helper_wait_kill"}
    /\ ~IsRunning(helpers, openapi_helpers[Head(req[t].hq)])
    /\ openapi_helpers' = [openapi_helpers EXCEPT ![Head(req[t].hq)] = 0]
    /\ req' = [req EXCEPT ![t].pc = "stop_helpers", ![t].hq = Tail(@)]
    /\ UNCHANGED <<children, processes, helpers>>
    /\ UNCHANGED Untimed
    /\ UNCHANGED Events
    /\ UNCHANGED inspector

\* _stop_openapi_helper: a wait_for has timed out: terminate() after the
\* killpg, kill() after the terminate
HelperTimedOut(t) ==
    /\ req[t].pc \in {"helper_wait_pg", "helper_wait_term"}
    /\ Expired(req[t])
    /\ LET h == openapi_helpers[Head(req[t].hq)]
       IN /\ IsRunning(helpers, h)
          /\ IF req[t].pc = "helper_wait_pg"
             THEN /\ helpers' = Signal(helpers, h, "SIGTERM", req[t].clock)
                  /\ req' = [req EXCEPT ![t].pc = "helper_wait_term",
                                         ![t].deadline = req[t].clock + timeout]
             ELSE /\ helpers' = Signal(helpers, h, "SIGKILL", req[t].clock)
                  /\ req' = [req EXCEPT ![t].pc = "helper_wait_kill"]
    /\ UNCHANGED <<children, processes, openapi_helpers>>
    /\ UNCHANGED Untimed
    /\ UNCHANGED Events
    /\ UNCHANGED inspector

\* the operating system ends a process that was sent SIGKILL
Killed(c) ==
    /\ c \in DOMAIN children
    /\ IsRunning(children, c) /\ HasSignal(children[c], "SIGKILL")
    /\ children' = [children EXCEPT ![c].returncode = "kill"]
    /\ UNCHANGED <<processes, helpers, openapi_helpers, req>>
    /\ UNCHANGED Untimed
    /\ UNCHANGED Events
    /\ UNCHANGED inspector

\* a child that handles SIGTERM exits on it; any child may exit by itself
Exits(c) ==
    /\ c \in DOMAIN children
    /\ IsRunning(children, c)
    /\ \/ /\ HasSignal(children[c], "SIGTERM") /\ ~children[c].stubborn
          /\ children' = [children EXCEPT ![c].returncode = "term"]
       \/ children' = [children EXCEPT ![c].returncode = "exit"]
    /\ UNCHANGED <<processes, helpers, openapi_helpers, req>>
    /\ UNCHANGED Untimed
    /\ UNCHANGED Events
    /\ UNCHANGED inspector

HelperKilled(h) ==
    /\ h \in DOMAIN helpers
    /\ IsRunning(helpers, h) /\ HasSignal(helpers[h], "SIGKILL")
    /\ helpers' = [helpers EXCEPT ![h].returncode = "kill"]
    /\ UNCHANGED <<processes, children, openapi_helpers, req>>
    /\ UNCHANGED Untimed
    /\ UNCHANGED Events
    /\ UNCHANGED inspector

HelperExits(h) ==
    /\ h \in DOMAIN helpers
    /\ IsRunning(helpers, h)
    /\ \/ /\ HasSignal(helpers[h], "SIGTERM") /\ ~helpers[h].stubborn
          /\ helpers' = [helpers EXCEPT ![h].returncode = "term"]
       \/ helpers' = [helpers EXCEPT ![h].returncode = "exit"]
    /\ UNCHANGED <<processes, children, openapi_helpers, req>>
    /\ UNCHANGED Untimed
    /\ UNCHANGED Events
    /\ UNCHANGED inspector

NextTerm ==
    \/ \E t \in Tasks : terminate_port(t)
    \/ \E t \in Tasks : Tick(t)
    \/ \E t \in Tasks : TermWaited(t)
    \/ \E t \in Tasks : TermTimedOut(t)
    \/ \E t \in Tasks : StopHelper(t)
    \/ \E t \in Tasks : HelperWaited(t)
    \/ \E t \in Tasks : HelperTimedOut(t)
    \/ \E c \in 1..MaxChildren : Killed(c)
    \/ \E c \in 1..MaxChildren : Exits(c)
    \/ \E h \in 1..MaxHelpers : HelperKilled(h)
    \/ \E h \in 1..MaxHelpers : HelperExits(h)

\* the event loop runs a coroutine that can go on, time passes, and the
\* operating system ends a process that was sent SIGKILL
FairTerm ==
    /\ \A t \in Tasks :
          /\ WF_vars(terminate_port(t)) /\ WF_vars(Tick(t))
          /\ WF_vars(TermWaited(t)) /\ WF_vars(TermTimedOut(t))
          /\ WF_vars(StopHelper(t))
          /\ WF_vars(HelperWaited(t)) /\ WF_vars(HelperTimedOut(t))
    /\ \A c \in 1..MaxChildren : WF_vars(Killed(c))
    /\ \A h \in 1..MaxHelpers : WF_vars(HelperKilled(h))

SpecTerm == InitTerm /\ [][NextTerm]_vars /\ FairTerm

\* SIGKILL is sent to the child only after SIGTERM, and only once the wait
\* of 5 seconds that followed it has expired
KillAfterWait ==
    \A c \in DOMAIN children : \A i \in DOMAIN children[c].signals :
       children[c].signals[i].sig = "SIGKILL" =>
          /\ i > 1
          /\ children[c].signals[1].sig = "SIGTERM"
          /\ children[c].signals[i].at >= children[c].signals[1].at + timeout

\* when _terminate_port has returned the child has exited and the port has
\* no entry
ReturnedIdle ==
    \A t \in Tasks :
       req[t].pc = "returned" =>
          /\ \A c \in DOMAIN children : ~IsRunning(children, c)
          /\ processes[stream_port] = 0

\* C19: _terminate_port on a port whose child ignores SIGTERM always
\* returns; SIGTERM is sent first, SIGKILL only after the wait of 5 seconds
\* has expired; on return the child has exited and the port has no entry
TerminateCompletes ==
    /\ []KillAfterWait
    /\ []ReturnedIdle
    /\ \A t \in Tasks : (req[t].pc = "call") ~> (req[t].pc = "returned")

\* _terminate_port has returned from a child that ignored SIGTERM and was
\* killed five seconds later
C19_KilledAfterFive ==
    /\ req[1].pc = "returned"
    /\ children[1].stubborn
    /\ children[1].returncode = "kill"
    /\ Len(children[1].signals) = 2
    /\ children[1].signals[2].at = children[1].signals[1].at + timeout

\* ---------------------------------------------------------------------------
\* The inspector: InspectorManager, one process at a time, one url per start
\* ---------------------------------------------------------------------------

\* inspector processes spawned in one behaviour
MaxInspectors == 3

\* everything but the inspector
Managed == <<store, active_ports, port_order, processes, children, openapi_helpers,
             helpers, lock, req, budget, listeners, queues, streams, sent>>

\* a process just returned by create_subprocess_exec, its pump created
NewInspector == [returncode |-> "none", pump |-> "reading", seen |-> FALSE]

\* self.process and self.process.returncode is None
InspectorRunning(i) == i.process # 0 /\ i.procs[i.process].returncode = "none"

\* the end of _stop_process
Forget(i) == [i EXCEPT !.process = 0, !.url = 0]

\* start, from the token to the await of create_subprocess_exec
Mint(i) ==
    [i EXCEPT !.url = i.starts + 1, !.starts = @ + 1, !.ready = FALSE, !.pc = "spawn"]

\* InspectorManager.state(): the url is reported only when ready
InspectorState(i) ==
    [running |-> InspectorRunning(i), url |-> IF i.ready THEN i.url ELSE 0]

\* POST /api/inspector/start, up to its first suspension
InspectorStart ==
    /\ inspector.pc = "idle"
    /\ inspector.starts < MaxInspectors
    /\ inspector' = IF InspectorRunning(inspector)
                    THEN [inspector EXCEPT !.pc = "stop_wait", !.kind = "start"]
                    ELSE Mint(inspector)
    /\ UNCHANGED Managed

\* POST /api/inspector/stop, up to its first suspension
InspectorStop ==
    /\ inspector.pc = "idle"
    /\ inspector' = IF InspectorRunning(inspector)
                    THEN [inspector EXCEPT !.pc = "stop_wait", !.kind = "stop"]
                    ELSE Forget(inspector)
    /\ UNCHANGED Managed

\* _stop_process after process.wait(): the terminated (or killed) process is gone
InspectorStopped ==
    /\ inspector.pc = "stop_wait"
    /\ LET p == inspector.process
           gone == [inspector EXCEPT !.procs[p].returncode = "exit", !.pc = "idle"]
       IN  inspector' = IF inspector.kind = "start" THEN Mint(Forget(gone))
                        ELSE Forget(gone)
    /\ UNCHANGED Managed

\* create_subprocess_exec returns a process, or raises FileNotFoundError
InspectorSpawned ==
    /\ inspector.pc = "spawn"
    /\ \E ok \in BOOLEAN :
          inspector' = IF ok
                       THEN [inspector EXCEPT !.procs = Append(@, NewInspector),
                                              !.process = Len(inspector.procs) + 1,
                                              !.pc = "idle"]
                       ELSE [inspector EXCEPT !.pc = "idle"]
    /\ UNCHANGED Managed

\* an inspector process exits by itself
InspectorExit(p) ==
    /\ p \in DOMAIN inspector.procs
    /\ inspector.procs[p].returncode = "none"
    /\ ~(inspector.pc = "stop_wait" /\ inspector.process = p)
    /\ inspector' = [inspector EXCEPT !.procs[p].returncode = "exit"]
    /\ UNCHANGED Managed

\* _pipe_logs(proc) reads a line with "proxy server listening" or "inspector is up"
InspectorReadyLine(p) ==
    /\ p \in DOMAIN inspector.procs
    /\ inspector.procs[p].pump = "reading"
    /\ inspector' = [inspector EXCEPT !.ready = TRUE, !.procs[p].seen = TRUE]
    /\ UNCHANGED Managed

\* _pipe_logs(proc) reads the end of the stream of an exited process
InspectorEOF(p) ==
    /\ p \in DOMAIN inspector.procs
    /\ inspector.procs[p].pump = "reading"
    /\ inspector.procs[p].returncode # "none"
    /\ inspector' = [inspector EXCEPT !.procs[p].pump = "done"]
    /\ UNCHANGED Managed

NextInspector ==
    \/ InspectorStart
    \/ InspectorStop
    \/ InspectorStopped
    \/ InspectorSpawned
    \/ \E p \in 1..MaxInspectors : InspectorExit(p)
    \/ \E p \in 1..MaxInspectors : InspectorReadyLine(p)
    \/ \E p \in 1..MaxInspectors : InspectorEOF(p)

SpecInspector == Init /\ [][NextInspector]_vars

\* a ready line of the process that self.process names has been read
ReadySeen(i) == i.process # 0 /\ i.procs[i.process].seen

\* C21: the state reports a url only if a ready line of the process that
\* self.process names has been read since that process was started; after a
\* restart the url stays hidden until the new process prints such a line
UrlOnlyWhenReady ==
    InspectorState(inspector).url # 0 => ReadySeen(inspector)

\* a restarted inspector whose url is reported on a line of the previous process
C21_UrlOfSilentProcess ==
    /\ inspector.pc = "idle"
    /\ InspectorRunning(inspector)
    /\ inspector.process > 1
    /\ ~ReadySeen(inspector)
    /\ InspectorState(inspector).url = inspector.starts

====
